---- MODULE Spec2Model ----
(***************************************************************************)
(* A model of the point-source engine of enlib's dory.py: the correlation  *)
(* grouping (group_independent), the duplicate merger (merge_duplicates),  *)
(* the artifact resolver (find_source_artifacts, prune_artifacts) and the  *)
(* control flow and linear-system bookkeeping of the joint amplitude       *)
(* fitter (fit_src_amps).                                                  *)
(*                                                                         *)
(* Angles are exact multiples of a grid unit chosen so that every cosine   *)
(* the code takes is rational; real-valued map quantities are drawn from   *)
(* small integer sets.  Each function has its own specification (SpecGroup,*)
(* SpecMerge, SpecArt, SpecFit) over the shared variables; the variables   *)
(* of the functions a specification does not run stay at their idle value. *)
(***************************************************************************)
EXTENDS Integers, Sequences, FiniteSets, TLC

VARIABLES
    \* group_independent
    pos,            \* the caller's positions: [0..n-1 -> [dec, ra]]
    corrlen,        \* the correlation length, in half grid units
    gi_pc,          \* position in group_independent
    remainder,      \* sources not yet in a group
    candidates,     \* sources still eligible for the current group
    group,          \* the current group, in the order elements were popped
    indep_groups,   \* the groups closed so far (each sorted)
    \* merge_duplicates
    cat,            \* the caller's catalog: [0..n-1 -> entry]
    rlim,           \* the match radius, in half grid units
    md_pc,          \* position in merge_duplicates
    md_gi,          \* the loop index gi
    md_done,        \* the indices whose done flag is set
    ocat,           \* the output entries appended so far
    \* prune_artifacts and find_source_artifacts
    rcat,           \* result.cat as passed in: [0..n-1 -> entry]
    gmax,           \* find_source_artifacts' gmax
    maxit,          \* find_source_artifacts' maxit
    fa_pc,          \* position in find_source_artifacts
    fa_todo,        \* strong sources the loop over order has not visited
    fa_done,        \* done: entries already listed as artifacts
    owners,         \* owners, in the order appended
    artifacts,      \* artifacts, in the order appended (each a set)
    fa_si,          \* the strong source being handled
    tagged,         \* its tagged set
    fa_cands,       \* its chain candidates
    fa_it,          \* the chain iteration counter it
    pr_pc,          \* position in prune_artifacts
    pr_cat,         \* result.cat on return, as the kept original indices
    pr_arg,         \* the result object passed to prune_artifacts
    pr_res,         \* the result object prune_artifacts returns
    \* fit_src_amps
    src_pix,        \* pixel position of each input source: [0..n-1 -> <<y, x>>]
    idiv_zero,      \* the pixels where idiv is zero (idiv > 0 elsewhere)
    npass,          \* the number of passes
    fit_pc,         \* position in fit_src_amps
    fit_inds,       \* fit_inds: input indices of the surviving sources
    ipass,          \* the pass counter
    icov_pre,       \* icov of the current pass before line 815
    icov,           \* icov
    amp,            \* amp
    local_amps,     \* local_amps
    nmodels,        \* noise models built so far (measure_noise calls)
    nsolves,        \* np.linalg.solve calls so far
    fit_ret,        \* which return statement was taken
    \* find_srcs (one pass)
    fmap,           \* the filtered map of the pass, one value per pixel
    fs_apod_margin, \* apod_margin
    nblock,         \* nblock
    fs_pc,          \* position in the pass
    iblock,         \* the block counter
    sn_lim,         \* sn_lim, a fraction <<numerator, denominator>>
    fs_peak,        \* sn_lim as set before the block loop (line 289)
    fs_cuts,        \* the cutoff of every block that reached line 312
    fs_stop,        \* how the block loop ended
    fits,           \* the accumulated fits, in the order they were appended
    fs_rms,         \* rms (line 343), in the order of fits
    fs_sorted,      \* cat after the ordering of line 353
    fs_cat,         \* cat of the pass
    \* merge_maps_onto
    mm_size,        \* comm.size
    mm_root,        \* root
    mm_dtype,       \* whether dtype is given
    maplist,        \* maplist of every rank
    mm_pc,          \* position of every rank
    mm_sent,        \* the loop counter i of every sending rank
    chan,           \* the messages in flight to the root, per source rank
    mm_ri,          \* the root's rank counter ri
    mm_rpc,         \* what the root receives next from rank ri
    mm_nmap,        \* nmap as received by the root
    mm_i,           \* the root's map counter i
    mm_pbox,        \* pbox as received by the root
    omap,           \* omap: sum of value*weight, then the merged map
    odiv,           \* odiv: sum of weight
    mm_out,         \* what every rank returned
    \* write_catalog / read_catalog
    io_cat,         \* the catalogue given to write_catalog
    io_name,        \* the file name
    io_pc,          \* position in the round trip
    io_file,        \* the file written
    io_back,        \* the catalogue read_catalog returns
    \* build_filter
    bf_beam,        \* beam2d
    bf_ps,          \* ps
    bf_pc,          \* position in build_filter
    bf_filter,      \* filter
    bf_m,           \* m
    bf_norm,        \* norm
    \* SrcScan.select
    ss_orig,        \* the arrays of self when select is called
    ss_heap,        \* the value of every array object
    ss_srcs,        \* argument srcs
    ss_dets,        \* argument dets
    ss_pc,          \* position in select
    ss_ri,          \* ri of the loop of step 4
    ss_m,           \* m of the loop of step 4
    ss_ret,         \* the arrays of the returned SrcScan
    \* fit_labeled_srcs
    fl_vals,        \* the values of fmap on the pixels of the component
    fl_pc,          \* position in fit_labeled_srcs
    fl_com,         \* pos_com, amp_com
    fl_max,         \* pos_max, amp_max
    fl_min,         \* pos_min, amp_min
    fl_ext,         \* pos_ext, amp_ext
    fl_ret,         \* pos, amp
    \* the labelling of a block of find_srcs
    lb_snmap,       \* snmap
    lb_pc,          \* position in the labelling
    lb_pos,         \* matches_pos
    lb_neg,         \* matches_neg
    lb_matches,     \* matches
    lb_labels,      \* labels
    lb_nlabel,      \* nlabel
    \* fit_src_amps with a prior
    pf_pix,         \* src_pix of the sources given
    pf_prior,       \* the caller's prior_amp and prior_ivar
    pf_empty,       \* whether np.sum(idiv*apod_map**2) is zero
    pf_npass,       \* npass
    pf_pc,          \* position in fit_src_amps
    pf_inds,        \* fit_inds
    pf_ipass,       \* ipass
    pf_rhs0,        \* rhs as the projections of the pass built it
    pf_icov0,       \* icov as the projections of the pass built it
    pf_rhs,         \* rhs
    pf_icov,        \* icov
    pf_ret          \* which return statement was taken

gi_vars == <<pos, corrlen, gi_pc, remainder, candidates, group, indep_groups>>

md_vars == <<cat, rlim, md_pc, md_gi, md_done, ocat>>

fa_vars == <<rcat, gmax, maxit, fa_pc, fa_todo, fa_done, owners, artifacts,
             fa_si, tagged, fa_cands, fa_it, pr_pc, pr_cat, pr_arg, pr_res>>

fit_vars == <<src_pix, idiv_zero, npass, fit_pc, fit_inds, ipass, icov_pre, icov,
              amp, local_amps, nmodels, nsolves, fit_ret>>

fs_vars == <<fmap, fs_apod_margin, nblock, fs_pc, iblock, sn_lim, fs_peak, fs_cuts,
             fs_stop, fits, fs_rms, fs_sorted, fs_cat>>

mm_vars == <<mm_size, mm_root, mm_dtype, maplist, mm_pc, mm_sent, chan, mm_ri, mm_rpc,
             mm_nmap, mm_i, mm_pbox, omap, odiv, mm_out>>

io_vars == <<io_cat, io_name, io_pc, io_file, io_back>>

bf_vars == <<bf_beam, bf_ps, bf_pc, bf_filter, bf_m, bf_norm>>

ss_vars == <<ss_orig, ss_heap, ss_srcs, ss_dets, ss_pc, ss_ri, ss_m, ss_ret>>

fl_vars == <<fl_vals, fl_pc, fl_com, fl_max, fl_min, fl_ext, fl_ret>>

lb_vars == <<lb_snmap, lb_pc, lb_pos, lb_neg, lb_matches, lb_labels, lb_nlabel>>

pf_vars == <<pf_pix, pf_prior, pf_empty, pf_npass, pf_pc, pf_inds, pf_ipass,
             pf_rhs0, pf_icov0, pf_rhs, pf_icov, pf_ret>>

vars == <<gi_vars, md_vars, fa_vars, fit_vars, fs_vars, mm_vars, io_vars, bf_vars, ss_vars, fl_vars, lb_vars, pf_vars>>

(***************************************************************************)
(* Generic helpers                                                         *)
(***************************************************************************)
Abs(x) == IF x < 0 THEN -x ELSE x

Min(S) == CHOOSE x \in S : \A y \in S : x <= y

Max(S) == CHOOSE x \in S : \A y \in S : x >= y

Range(s) == {s[i] : i \in DOMAIN s}

RECURSIVE Gcd(_, _)
Gcd(a, b) == IF b = 0 THEN a ELSE Gcd(b, a % b)

\* a fraction in lowest terms with a positive denominator
Reduced(f) ==
    LET g == Gcd(Abs(f[1]), Abs(f[2]))
        sgn == IF f[2] < 0 THEN -1 ELSE 1
    IN  IF f[1] = 0 THEN <<0, 1>> ELSE <<sgn * (f[1] \div g), sgn * (f[2] \div g)>>

FAdd(f, g) == Reduced(<<f[1] * g[2] + g[1] * f[2], f[2] * g[2]>>)

FMul(f, g) == Reduced(<<f[1] * g[1], f[2] * g[2]>>)

FDiv(f, g) == Reduced(<<f[1] * g[2], f[2] * g[1]>>)

\* Python's sorted() of a set of integers, as a sequence
RECURSIVE Sorted(_)
Sorted(S) == IF S = {} THEN <<>> ELSE <<Min(S)>> \o Sorted(S \ {Min(S)})

(***************************************************************************)
(* group_independent (dory.py 392-427)                                     *)
(*                                                                         *)
(* The angle grid unit is pi/3: dec in {0, 1} has cos(dec) in {1, 1/2}.    *)
(* Scaled tree coordinates are kept in half units (multiplied by two), and *)
(* so is corrlen.                                                          *)
(***************************************************************************)
MaxSrc == 3

MaxCorr == 3

FullTurn == 6

DecVals == {0, 1}

\* right ascensions in [0, 2*pi): two on each side of pi
RaVals == {0, 1, FullTurn \div 2, FullTurn - 1}

\* utils.rewind(a, ref=0, period=2*pi): the angle moved into [-pi, pi)
Rewind(a) == ((a + FullTurn \div 2) % FullTurn) - FullTurn \div 2

\* 2*np.cos(dec) on the grid
Cos2(dec) == IF dec = 0 THEN 2 ELSE 1

NSrc == Cardinality(DOMAIN pos)

\* pos after line 393; only the ra column can leave [-pi, pi)
RewoundPos == [i \in DOMAIN pos |-> [dec |-> pos[i].dec, ra |-> Rewind(pos[i].ra)]]

\* wpos (lines 396-398): index k in 0..3n-1 is source k % n, shifted by
\* 0, -2pi, +2pi for k \div n = 0, 1, 2
WrapShift(k) == CASE k \div NSrc = 0 -> 0
                  [] k \div NSrc = 1 -> -FullTurn
                  [] OTHER           -> FullTurn

\* a point after the cos(dec) scaling of lines 402-403, in half units
Scaled(dec, ra) == [y |-> 2 * dec, x |-> ra * Cos2(dec)]

TreePoint(i) == Scaled(RewoundPos[i].dec, RewoundPos[i].ra)

WTreePoint(k) == Scaled(RewoundPos[k % NSrc].dec, RewoundPos[k % NSrc].ra + WrapShift(k))

Dist2(p, q) == (p.y - q.y) * (p.y - q.y) + (p.x - q.x) * (p.x - q.x)

\* tree.query_ball_tree(wtree, corrlen)[i] (line 407): distance <= corrlen
BallQuery(i) == {k \in 0 .. (3 * NSrc - 1) : Dist2(TreePoint(i), WTreePoint(k)) <= corrlen * corrlen}

\* corr_groups after the index normalisation of line 409
corr_groups == [i \in DOMAIN pos |-> {k % NSrc : k \in BallQuery(i)}]

GI_InitInputs ==
    /\ \E n \in 1 .. MaxSrc : pos \in [0 .. (n - 1) -> [dec : DecVals, ra : RaVals]]
    /\ corrlen \in 0 .. MaxCorr

GI_Idle ==
    /\ pos = <<>>
    /\ corrlen = 0
    /\ gi_pc = "idle"
    /\ remainder = {}
    /\ candidates = {}
    /\ group = <<>>
    /\ indep_groups = <<>>

GI_Start ==
    /\ GI_InitInputs
    /\ gi_pc = "start"
    /\ remainder = {}
    /\ candidates = {}
    /\ group = <<>>
    /\ indep_groups = <<>>

\* lines 393-413: the neighbour sets are built, remainder = set(range(n))
GI_Setup ==
    /\ gi_pc = "start"
    /\ gi_pc' = "outer"
    /\ remainder' = DOMAIN pos
    /\ indep_groups' = <<>>
    /\ UNCHANGED <<pos, corrlen, candidates, group>>

\* variant of GI_NewGroup: every group starts from all the sources
GI_NewGroup_AllSources ==
    /\ gi_pc = "outer"
    /\ remainder # {}
    /\ group' = <<>>
    /\ candidates' = DOMAIN pos
    /\ gi_pc' = "inner"
    /\ UNCHANGED <<pos, corrlen, remainder, indep_groups>>

\* lines 414-416: a new group starts from the unassigned sources
GI_NewGroup ==
    /\ gi_pc = "outer"
    /\ remainder # {}
    /\ group' = <<>>
    /\ candidates' = remainder
    /\ gi_pc' = "inner"
    /\ UNCHANGED <<pos, corrlen, remainder, indep_groups>>

\* lines 417-422: set.pop() returns an arbitrary element
GI_Pop ==
    /\ gi_pc = "inner"
    /\ candidates # {}
    /\ \E elem \in candidates :
          /\ candidates' = (candidates \ {elem}) \ corr_groups[elem]
          /\ group' = Append(group, elem)
    /\ UNCHANGED <<pos, corrlen, gi_pc, remainder, indep_groups>>

\* lines 423-424
GI_CloseGroup ==
    /\ gi_pc = "inner"
    /\ candidates = {}
    /\ remainder' = remainder \ Range(group)
    /\ indep_groups' = Append(indep_groups, Sorted(Range(group)))
    /\ gi_pc' = "outer"
    /\ UNCHANGED <<pos, corrlen, candidates, group>>

\* lines 425-427
GI_Return ==
    /\ gi_pc = "outer"
    /\ remainder = {}
    /\ gi_pc' = "done"
    /\ UNCHANGED <<pos, corrlen, remainder, candidates, group, indep_groups>>

GI_Next ==
    \/ GI_Setup /\ UNCHANGED <<md_vars, fa_vars, fit_vars, fs_vars, mm_vars, io_vars, bf_vars, ss_vars, fl_vars, lb_vars, pf_vars>>
    \/ GI_NewGroup /\ UNCHANGED <<md_vars, fa_vars, fit_vars, fs_vars, mm_vars, io_vars, bf_vars, ss_vars, fl_vars, lb_vars, pf_vars>>
    \/ GI_Pop /\ UNCHANGED <<md_vars, fa_vars, fit_vars, fs_vars, mm_vars, io_vars, bf_vars, ss_vars, fl_vars, lb_vars, pf_vars>>
    \/ GI_CloseGroup /\ UNCHANGED <<md_vars, fa_vars, fit_vars, fs_vars, mm_vars, io_vars, bf_vars, ss_vars, fl_vars, lb_vars, pf_vars>>
    \/ GI_Return /\ UNCHANGED <<md_vars, fa_vars, fit_vars, fs_vars, mm_vars, io_vars, bf_vars, ss_vars, fl_vars, lb_vars, pf_vars>>

(***************************************************************************)
(* merge_duplicates (dory.py 1007-1052)                                    *)
(*                                                                         *)
(* A catalog entry carries ra, dec, amp (amp[0]) and damp (damp[0]).       *)
(* Positions are on the grid of group_independent; the tree coordinates    *)
(* (ra*cos(dec), dec) are in half units, and so is rlim.  An output entry  *)
(* holds each field as an exact fraction <<numerator, denominator>>.       *)
(***************************************************************************)
MaxCat == 3

AlimNum == 1

AlimDen == 4

\* positions of catalog entries: a chain of three in which the ends are
\* farther apart than rlim, one entry with ra beyond pi and one off the equator
CatPosVals == {[dec |-> 0, ra |-> 0], [dec |-> 0, ra |-> FullTurn - 1], [dec |-> 1, ra |-> 1]}

AmpVals == {2, 3, 4}

DampVals == {1, 2}

RlimVals == {3}

\* the value standing for an amp[0] that is NaN
NanAmp == -1

IsNan(a) == a = NanAmp

\* a catalog entry whose amp[0] is NaN, in the middle of the chain
NanEntries == {[ra |-> 0, dec |-> 0, amp |-> NanAmp, damp |-> 1]}

Entries == {[ra |-> p.ra, dec |-> p.dec, amp |-> a, damp |-> d] : p \in CatPosVals, a \in AmpVals, d \in DampVals}
               \cup NanEntries

NCat == Cardinality(DOMAIN cat)

\* cat after lines 1016-1017: a copy with ra rewound around 0
CatCopy == [i \in DOMAIN cat |-> [cat[i] EXCEPT !.ra = Rewind(cat[i].ra)]]

\* pos (line 1018) of entry i, in half units
MergePoint(i) == Scaled(CatCopy[i].dec, CatCopy[i].ra)

\* groups[gi] = tree.query_ball_tree(tree, rlim)[gi] (lines 1019-1020)
MergeGroups(gi) == {j \in DOMAIN cat : Dist2(MergePoint(gi), MergePoint(j)) <= rlim * rlim}

\* the weight damp[0]**-2 of line 1042, in units of Max(DampVals)**-2
Weight(e) == (Max(DampVals) * Max(DampVals)) \div (e.damp * e.damp)

RECURSIVE SumOver(_, _)
SumOver(S, f) == IF S = {} THEN 0
                 ELSE LET i == CHOOSE x \in S : TRUE
                      IN f[i] + SumOver(S \ {i}, f)

\* wmean (line 1039) of field values v over the entries G, as a fraction
WMean(G, v) == <<SumOver(G, [i \in G |-> v[i] * Weight(CatCopy[i])]),
                 SumOver(G, [i \in G |-> Weight(CatCopy[i])])>>

\* an entry copied as it is (line 1031)
Verbatim(e) == [ra |-> <<e.ra, 1>>, dec |-> <<e.dec, 1>>, amp |-> <<e.amp, 1>>, damp |-> <<e.damp, 1>>]

\* good (line 1034): |amp| >= max|amp| * (1 - alim); np.max of amplitudes
\* holding a NaN is NaN, and no comparison with NaN is true
Good(G) == IF \E j \in G : IsNan(CatCopy[j].amp) THEN {}
           ELSE {i \in G : AlimDen * Abs(CatCopy[i].amp)
                        >= (AlimDen - AlimNum) * Max({Abs(CatCopy[j].amp) : j \in G})}

\* variant of Merged: damp keeps the weighted mean of line 1042
Merged_DampMean(G) == [ra   |-> WMean(G, [i \in G |-> CatCopy[i].ra]),
                       dec  |-> WMean(G, [i \in G |-> CatCopy[i].dec]),
                       amp  |-> WMean(G, [i \in G |-> CatCopy[i].amp]),
                       damp |-> WMean(G, [i \in G |-> CatCopy[i].damp])]

\* the merged entry of lines 1037-1046 (the weighted damp mean of line 1042
\* is overwritten by the minimum at line 1046)
Merged(G) == [ra   |-> WMean(G, [i \in G |-> CatCopy[i].ra]),
              dec  |-> WMean(G, [i \in G |-> CatCopy[i].dec]),
              amp  |-> WMean(G, [i \in G |-> CatCopy[i].amp]),
              damp |-> <<Min({CatCopy[i].damp : i \in G}), 1>>]

MD_InitInputs ==
    /\ \E n \in 0 .. MaxCat : cat \in [0 .. (n - 1) -> Entries]
    /\ rlim \in RlimVals

MD_Idle ==
    /\ cat = <<>>
    /\ rlim = 0
    /\ md_pc = "idle"
    /\ md_gi = 0
    /\ md_done = {}
    /\ ocat = <<>>

MD_Start ==
    /\ MD_InitInputs
    /\ md_pc = "start"
    /\ md_gi = 0
    /\ md_done = {}
    /\ ocat = <<>>

\* lines 1014-1022: an empty catalog is returned at once
MD_Setup ==
    /\ md_pc = "start"
    /\ md_pc' = IF NCat = 0 THEN "done" ELSE "loop"
    /\ md_gi' = 0
    /\ md_done' = {}
    /\ ocat' = IF NCat = 0 THEN [i \in DOMAIN cat |-> Verbatim(cat[i])] ELSE <<>>
    /\ UNCHANGED <<cat, rlim>>

\* not-yet-done members of groups[gi] (lines 1025-1026)
Pending(gi) == MergeGroups(gi) \ md_done

\* variant of MD_Iteration: single-member groups are skipped
MD_Iteration_SkipSingle ==
    /\ md_pc = "loop"
    /\ md_gi < NCat
    /\ md_gi' = md_gi + 1
    /\ LET g == Pending(md_gi)
       IN  IF Cardinality(g) <= 1 \/ Good(g) = {}
           THEN UNCHANGED <<md_done, ocat>>
           ELSE /\ md_done' = md_done \cup g
                /\ ocat' = Append(ocat, Merged(Good(g)))
    /\ UNCHANGED <<cat, rlim, md_pc>>

\* variant of MD_Iteration: only the averaged members are marked done
MD_Iteration_GoodDone ==
    /\ md_pc = "loop"
    /\ md_gi < NCat
    /\ md_gi' = md_gi + 1
    /\ LET g == Pending(md_gi)
       IN  IF g = {}
           THEN UNCHANGED <<md_done, ocat>>
           ELSE IF Cardinality(g) = 1
           THEN /\ md_done' = md_done \cup g
                /\ ocat' = Append(ocat, Verbatim(CatCopy[CHOOSE i \in g : TRUE]))
           ELSE IF Good(g) = {}
           THEN UNCHANGED <<md_done, ocat>>
           ELSE /\ md_done' = md_done \cup Good(g)
                /\ ocat' = Append(ocat, Merged(Good(g)))
    /\ UNCHANGED <<cat, rlim, md_pc>>

\* lines 1023-1050: one iteration of the loop over groups
MD_Iteration ==
    /\ md_pc = "loop"
    /\ md_gi < NCat
    /\ md_gi' = md_gi + 1
    /\ LET g == Pending(md_gi)
       IN  IF g = {}
           THEN UNCHANGED <<md_done, ocat>>
           ELSE IF Cardinality(g) = 1
           THEN /\ md_done' = md_done \cup g
                /\ ocat' = Append(ocat, Verbatim(CatCopy[CHOOSE i \in g : TRUE]))
           ELSE IF Good(g) = {}
           THEN UNCHANGED <<md_done, ocat>>
           ELSE /\ md_done' = md_done \cup g
                /\ ocat' = Append(ocat, Merged(Good(g)))
    /\ UNCHANGED <<cat, rlim, md_pc>>

\* lines 1051-1052
MD_Return ==
    /\ md_pc = "loop"
    /\ md_gi = NCat
    /\ md_pc' = "done"
    /\ UNCHANGED <<cat, rlim, md_gi, md_done, ocat>>

MD_Next ==
    \/ MD_Setup /\ UNCHANGED <<gi_vars, fa_vars, fit_vars, fs_vars, mm_vars, io_vars, bf_vars, ss_vars, fl_vars, lb_vars, pf_vars>>
    \/ MD_Iteration /\ UNCHANGED <<gi_vars, fa_vars, fit_vars, fs_vars, mm_vars, io_vars, bf_vars, ss_vars, fl_vars, lb_vars, pf_vars>>
    \/ MD_Return /\ UNCHANGED <<gi_vars, fa_vars, fit_vars, fs_vars, mm_vars, io_vars, bf_vars, ss_vars, fl_vars, lb_vars, pf_vars>>

(***************************************************************************)
(* find_source_artifacts (dory.py 943-1005), prune_artifacts (845-859)     *)
(*                                                                         *)
(* Catalog entries lie on the equator (dec = 0, cos(dec) = 1), at right    *)
(* ascensions on a ring of ArtTurn grid units; an entry carries ra and its *)
(* signal-to-noise sn = amp[0]/damp[0].  The radii are in grid units.      *)
(***************************************************************************)
MaxArt == 3

ArtTurn == 12

VlimDen == 200

CoreLimDen == 20

MaxRad == 4

JumpRad == 3

CoreRad == 1

GmaxDefault == 1000

MaxitDefault == 100

ArtRaVals == {0, 1, 2, 4, ArtTurn - 2}

\* faint, strong, and stronger by more than 1/vlim
SnVals == {0, 30, 8000}

GmaxVals == {GmaxDefault}

MaxitVals == {1, MaxitDefault}

ArtEntries == [ra : ArtRaVals, sn : SnVals]

NArt == Cardinality(DOMAIN rcat)

\* utils.angdist on the equator: the ra difference around the ring
AngDist(i, j) == LET d == Abs(rcat[i].ra - rcat[j].ra) IN IF d <= ArtTurn - d THEN d ELSE ArtTurn - d

\* distance in the cKDTree over cpos (lines 963-964): no wrap
TreeDist(i, j) == Abs(rcat[i].ra - rcat[j].ra)

\* strong (line 965): sn > 1/core_lim
Strong == {i \in DOMAIN rcat : rcat[i].sn > CoreLimDen}

\* groups[gi] for strong source si (lines 968-969): within maxrad in the tree
ArtGroup(si) == {j \in DOMAIN rcat : TreeDist(si, j) <= MaxRad}

\* core artifacts of si (lines 980-981)
CoreSet(si) == {j \in ArtGroup(si) : /\ CoreLimDen * rcat[j].sn < rcat[si].sn
                                      /\ AngDist(j, si) < CoreRad}

\* variant of FaintGroup: the group is not restricted to weaker sources
FaintGroup_All(si) == ArtGroup(si)

\* the group restricted to weaker sources (line 986): sn < sn[si]*vlim
FaintGroup(si) == {j \in ArtGroup(si) : VlimDen * rcat[j].sn < rcat[si].sn}

\* variant of Matches: every entry of the rest
Matches_All(rest, tg) == rest

\* matches (lines 994-996): the rest within jumprad of a tagged entry
Matches(rest, tg) == {r \in rest : \E t \in tg : AngDist(r, t) < JumpRad}

\* the result of find_srcs (lines 283, 362-372): cat as the indices of its
\* entries, model as the entries whose templates it sums, resid as the
\* entries whose model is subtracted from map
InputResult ==
    [cat |-> Sorted(DOMAIN rcat), model |-> Sorted(DOMAIN rcat), resid |-> Sorted(DOMAIN rcat),
     snmap |-> "snmap", resid_snmap |-> "resid_snmap", map |-> "map", beam_thumb |-> "beam_thumb"]

FA_InitInputs ==
    /\ \E n \in 0 .. MaxArt : rcat \in [0 .. (n - 1) -> ArtEntries]
    /\ gmax \in GmaxVals
    /\ maxit \in MaxitVals

FA_Idle ==
    /\ rcat = <<>>
    /\ gmax = 0
    /\ maxit = 0
    /\ fa_pc = "idle"
    /\ fa_todo = {}
    /\ fa_done = {}
    /\ owners = <<>>
    /\ artifacts = <<>>
    /\ fa_si = -1
    /\ tagged = {}
    /\ fa_cands = {}
    /\ fa_it = 0
    /\ pr_pc = "idle"
    /\ pr_cat = <<>>
    /\ pr_arg = <<>>
    /\ pr_res = <<>>

\* prune_artifacts has copied result and calls find_source_artifacts (848-849)
FA_Start ==
    /\ FA_InitInputs
    /\ fa_pc = "start"
    /\ fa_todo = {}
    /\ fa_done = {}
    /\ owners = <<>>
    /\ artifacts = <<>>
    /\ fa_si = -1
    /\ tagged = {}
    /\ fa_cands = {}
    /\ fa_it = 0
    /\ pr_pc = "call"
    /\ pr_cat = <<>>
    /\ pr_arg = InputResult
    /\ pr_res = <<>>

\* lines 960-974: empty catalogs and catalogs without a strong source return
\* at once
FA_Setup ==
    /\ fa_pc = "start"
    /\ fa_pc' = IF NArt = 0 \/ Strong = {} THEN "done" ELSE "loop"
    /\ fa_todo' = Strong
    /\ fa_done' = {}
    /\ owners' = <<>>
    /\ artifacts' = <<>>
    /\ UNCHANGED <<rcat, gmax, maxit, fa_si, tagged, fa_cands, fa_it, pr_pc, pr_cat, pr_arg, pr_res>>

\* variant of AlreadyDone: no strong source is skipped
AlreadyDone_Never(si) == FALSE

\* if si in done: continue (line 978)
AlreadyDone(si) == si \in fa_done

\* lines 975-990: the next strong source in decreasing S/N (ties in the
\* order argsort leaves them); a source already in done is skipped
FA_Pick ==
    /\ fa_pc = "loop"
    /\ fa_todo # {}
    /\ \E si \in fa_todo :
          /\ \A j \in fa_todo : rcat[j].sn <= rcat[si].sn
          /\ fa_todo' = fa_todo \ {si}
          /\ fa_si' = si
          /\ IF AlreadyDone(si)
             THEN UNCHANGED <<fa_pc, tagged, fa_cands, fa_it>>
             ELSE /\ tagged' = {si} \cup CoreSet(si)
                  /\ fa_cands' = FaintGroup(si)
                  /\ fa_it' = 0
                  /\ fa_pc' = IF FaintGroup(si) # {} /\ Cardinality(FaintGroup(si)) < gmax
                              THEN "chain" ELSE "finish"
    /\ UNCHANGED <<rcat, gmax, maxit, fa_done, owners, artifacts, pr_pc, pr_cat, pr_arg, pr_res>>

\* lines 991-998: one pass of the chain loop.  With rest empty,
\* np.array(list(rest)) is an empty float64 array and pos[rarr,None]
\* raises IndexError.
FA_Chain ==
    /\ fa_pc = "chain"
    /\ LET rest == fa_cands \ tagged
           m    == Matches(rest, tagged)
       IN  IF fa_it >= maxit
           THEN /\ fa_pc' = "finish"
                /\ UNCHANGED <<tagged, fa_it>>
           ELSE IF rest = {}
           THEN /\ fa_pc' = "raised"
                /\ UNCHANGED <<tagged, fa_it>>
           ELSE IF m = {}
           THEN /\ fa_pc' = "finish"
                /\ UNCHANGED <<tagged, fa_it>>
           ELSE /\ tagged' = tagged \cup m
                /\ fa_it' = fa_it + 1
                /\ UNCHANGED fa_pc
    /\ UNCHANGED <<rcat, gmax, maxit, fa_todo, fa_done, owners, artifacts, fa_si, fa_cands, pr_pc, pr_cat, pr_arg, pr_res>>

\* lines 999-1004
FA_Finish ==
    /\ fa_pc = "finish"
    /\ fa_pc' = "loop"
    /\ LET arts == tagged \ {fa_si}
       IN  IF arts = {}
           THEN UNCHANGED <<fa_done, owners, artifacts>>
           ELSE /\ fa_done' = fa_done \cup arts
                /\ owners' = Append(owners, fa_si)
                /\ artifacts' = Append(artifacts, arts)
    /\ UNCHANGED <<rcat, gmax, maxit, fa_todo, fa_si, tagged, fa_cands, fa_it, pr_pc, pr_cat, pr_arg, pr_res>>

\* line 1005
FA_Return ==
    /\ fa_pc = "loop"
    /\ fa_todo = {}
    /\ fa_pc' = "done"
    /\ UNCHANGED <<rcat, gmax, maxit, fa_todo, fa_done, owners, artifacts, fa_si, tagged, fa_cands, fa_it, pr_pc, pr_cat, pr_arg, pr_res>>

\* all_arts (line 851)
AllArts == UNION Range(artifacts)

\* cat[good] (lines 852-854), as the kept indices in catalog order
KeptIndices == Sorted(DOMAIN rcat \ AllArts)

\* variant of PrunedResult: the model and the residual are not rebuilt
PrunedResult_ModelKept(res, kept) == [res EXCEPT !.cat = kept]

\* lines 854-858: the catalogue without the artifacts, the model of the
\* remaining entries and the residual map - model
PrunedResult(res, kept) == [res EXCEPT !.cat = kept, !.model = kept, !.resid = kept]

\* prune_artifacts after the call (lines 849-859), working on result.copy();
\* an exception raised by find_source_artifacts propagates
PR_Prune ==
    /\ pr_pc = "call"
    /\ fa_pc \in {"done", "raised"}
    /\ IF fa_pc = "raised"
       THEN /\ pr_pc' = "raised"
            /\ UNCHANGED <<pr_cat, pr_res>>
       ELSE /\ pr_pc' = "done"
            /\ pr_res' = IF Len(artifacts) = 0 THEN pr_arg ELSE PrunedResult(pr_arg, KeptIndices)
            /\ pr_cat' = pr_res'.cat
    /\ UNCHANGED <<rcat, gmax, maxit, fa_pc, fa_todo, fa_done, owners, artifacts, fa_si, tagged, fa_cands, fa_it, pr_arg>>

FA_Next ==
    \/ FA_Setup /\ UNCHANGED <<gi_vars, md_vars, fit_vars, fs_vars, mm_vars, io_vars, bf_vars, ss_vars, fl_vars, lb_vars, pf_vars>>
    \/ FA_Pick /\ UNCHANGED <<gi_vars, md_vars, fit_vars, fs_vars, mm_vars, io_vars, bf_vars, ss_vars, fl_vars, lb_vars, pf_vars>>
    \/ FA_Chain /\ UNCHANGED <<gi_vars, md_vars, fit_vars, fs_vars, mm_vars, io_vars, bf_vars, ss_vars, fl_vars, lb_vars, pf_vars>>
    \/ FA_Finish /\ UNCHANGED <<gi_vars, md_vars, fit_vars, fs_vars, mm_vars, io_vars, bf_vars, ss_vars, fl_vars, lb_vars, pf_vars>>
    \/ FA_Return /\ UNCHANGED <<gi_vars, md_vars, fit_vars, fs_vars, mm_vars, io_vars, bf_vars, ss_vars, fl_vars, lb_vars, pf_vars>>
    \/ PR_Prune /\ UNCHANGED <<gi_vars, md_vars, fit_vars, fs_vars, mm_vars, io_vars, bf_vars, ss_vars, fl_vars, lb_vars, pf_vars>>

(***************************************************************************)
(* fit_src_amps (dory.py 686-843)                                          *)
(*                                                                         *)
(* The map is MapSide x MapSide pixels and source positions are whole      *)
(* pixels.  idiv is given by the set of pixels where it is zero.  The      *)
(* entries of icov that the template projections of lines 789-796 produce  *)
(* are drawn from IcovVals (even numbers, so that the halving of line 815  *)
(* is exact); the solved amplitudes are not computed and are recorded as   *)
(* Solved.                                                                 *)
(***************************************************************************)
MaxFit == 2

MaxPass == 2

MapSide == 9

Apod == 2

ApodMargin == 1

Solved == 1

Pixels == (0 .. (MapSide - 1)) \X (0 .. (MapSide - 1))

\* source positions: inside both margins, inside the first margin only (low
\* y, high x), and inside neither (low y, high x)
SrcPixVals == {<<4, 4>>, <<3, 4>>, <<4, 5>>, <<2, 4>>, <<4, 6>>}

\* idiv: positive everywhere, zero everywhere, or zero in a one-pixel hole
IdivZeroVals == {{}, Pixels, {<<4, 3>>}}

IcovVals == {0, 2}

\* the margin test of lines 695 and 839
InsideMargin(pix, margin) == \A a \in 1 .. 2 : pix[a] >= margin /\ pix[a] < MapSide - margin

\* get_apod_holes (lines 86-87) is zero exactly where the distance transform
\* of div > 0 is zero, that is where div is not positive
HoleApodZero(pix) == pix \in idiv_zero

\* (idiv*0+1).apod(apod): the cosine taper starts at zero on the outermost pixels
EdgeApodZero(pix) == \E a \in 1 .. 2 : pix[a] = 0 \/ pix[a] = MapSide - 1

\* np.sum(idiv*apod_map**2) == 0 (line 709), idiv being non-negative
UsableAreaEmpty == \A pix \in Pixels : pix \in idiv_zero \/ HoleApodZero(pix) \/ EdgeApodZero(pix)

\* np.where(...)[0] of line 695: the passing input indices in increasing order
FitInds(margin) == Sorted({i \in DOMAIN src_pix : InsideMargin(src_pix[i], margin)})

Zeros1(n) == [k \in 1 .. n |-> 0]

Zeros2(n) == [k \in 1 .. n |-> [l \in 1 .. n |-> 0]]

Matrices(n) == [1 .. n -> [1 .. n -> IcovVals]]

\* variant of Symmetrize: the transpose is forgotten
Symmetrize_NoTranspose(m) == [i \in DOMAIN m |-> [j \in DOMAIN m |-> (m[i][j] + m[i][j]) \div 2]]

\* icov = 0.5*(icov+icov.T) (line 815)
Symmetrize(m) == [i \in DOMAIN m |-> [j \in DOMAIN m |-> (m[i][j] + m[j][i]) \div 2]]

RemoveAt(sq, k) == [i \in 1 .. (Len(sq) - 1) |-> IF i < k THEN sq[i] ELSE sq[i + 1]]

\* the determinant of the rows and columns listed, by expansion along the first row
RECURSIVE Det(_, _, _)
RECURSIVE DetRow(_, _, _, _)
Det(m, rows, cols) == IF rows = <<>> THEN 1 ELSE DetRow(m, rows, cols, Len(cols))

DetRow(m, rows, cols, k) ==
    IF k = 0 THEN 0
    ELSE DetRow(m, rows, cols, k - 1)
         + (IF k % 2 = 1 THEN 1 ELSE -1) * m[rows[1]][cols[k]] * Det(m, Tail(rows), RemoveAt(cols, k))

\* np.linalg.solve raises LinAlgError on a singular matrix
Singular(m) == Det(m, [k \in 1 .. Len(m) |-> k], [k \in 1 .. Len(m) |-> k]) = 0

\* positions in fit_inds that pass the widened margin (good, line 839)
GoodPositions(margin) == {k \in 1 .. Len(fit_inds) : InsideMargin(src_pix[fit_inds[k]], margin)}

\* v[good] for a vector, m[good][:,good] for a matrix (line 840)
Restrict1(v, keep) == [k \in 1 .. Len(keep) |-> v[keep[k]]]

Restrict2(m, keep) == [k \in 1 .. Len(keep) |-> [l \in 1 .. Len(keep) |-> m[keep[k]][keep[l]]]]

FIT_InitInputs ==
    /\ \E n \in 0 .. MaxFit : src_pix \in [0 .. (n - 1) -> SrcPixVals]
    /\ idiv_zero \in IdivZeroVals
    /\ npass \in 1 .. MaxPass

FIT_Idle ==
    /\ src_pix = <<>>
    /\ idiv_zero = {}
    /\ npass = 0
    /\ fit_pc = "idle"
    /\ fit_inds = <<>>
    /\ ipass = 0
    /\ icov_pre = <<>>
    /\ icov = <<>>
    /\ amp = <<>>
    /\ local_amps = <<>>
    /\ nmodels = 0
    /\ nsolves = 0
    /\ fit_ret = "none"

FIT_Start ==
    /\ FIT_InitInputs
    /\ fit_pc = "start"
    /\ fit_inds = <<>>
    /\ ipass = 0
    /\ icov_pre = <<>>
    /\ icov = <<>>
    /\ amp = <<>>
    /\ local_amps = <<>>
    /\ nmodels = 0
    /\ nsolves = 0
    /\ fit_ret = "none"

\* lines 691-699: the first margin test; with no survivor the function returns
FIT_Filter ==
    /\ fit_pc = "start"
    /\ fit_inds' = FitInds(Apod + ApodMargin)
    /\ IF Len(fit_inds') = 0
       THEN /\ fit_pc' = "done"
            /\ fit_ret' = "nosrc"
            /\ amp' = Zeros1(0)
            /\ icov' = Zeros2(0)
            /\ local_amps' = Zeros1(Len(fit_inds'))
       ELSE /\ fit_pc' = "apod"
            /\ UNCHANGED <<fit_ret, amp, icov, local_amps>>
    /\ UNCHANGED <<src_pix, idiv_zero, npass, ipass, icov_pre, nmodels, nsolves>>

\* variant of FIT_Apod: the zero results are sized by the input list
FIT_Apod_InputSized ==
    /\ fit_pc = "apod"
    /\ IF UsableAreaEmpty
       THEN /\ fit_pc' = "done"
            /\ fit_ret' = "empty"
            /\ amp' = Zeros1(Cardinality(DOMAIN src_pix))
            /\ icov' = Zeros2(Cardinality(DOMAIN src_pix))
            /\ local_amps' = Zeros1(Cardinality(DOMAIN src_pix))
       ELSE /\ fit_pc' = "pass"
            /\ UNCHANGED <<fit_ret, amp, icov, local_amps>>
    /\ UNCHANGED <<src_pix, idiv_zero, npass, fit_inds, ipass, icov_pre, nmodels, nsolves>>

\* lines 700-710: with no usable weighted area the function returns zeros
FIT_Apod ==
    /\ fit_pc = "apod"
    /\ IF UsableAreaEmpty
       THEN /\ fit_pc' = "done"
            /\ fit_ret' = "empty"
            /\ amp' = Zeros1(Len(fit_inds))
            /\ icov' = Zeros2(Len(fit_inds))
            /\ local_amps' = Zeros1(Len(fit_inds))
       ELSE /\ fit_pc' = "pass"
            /\ UNCHANGED <<fit_ret, amp, icov, local_amps>>
    /\ UNCHANGED <<src_pix, idiv_zero, npass, fit_inds, ipass, icov_pre, nmodels, nsolves>>

\* lines 743-809 of one pass: the noise model is measured, icov starts from
\* zeros and is filled by the projections (no prior is given)
FIT_Build ==
    /\ fit_pc = "pass"
    /\ ipass < npass
    /\ nmodels' = nmodels + 1
    /\ icov_pre' \in Matrices(Len(fit_inds))
    /\ icov' = icov_pre'
    /\ fit_pc' = "sym"
    /\ UNCHANGED <<src_pix, idiv_zero, npass, fit_inds, ipass, amp, local_amps, nsolves, fit_ret>>

\* line 815
FIT_Symmetrize ==
    /\ fit_pc = "sym"
    /\ icov' = Symmetrize(icov)
    /\ fit_pc' = "solve"
    /\ UNCHANGED <<src_pix, idiv_zero, npass, fit_inds, ipass, icov_pre, amp, local_amps, nmodels, nsolves, fit_ret>>

\* lines 816-834: the solve, the model and the noise for the next pass
FIT_Solve ==
    /\ fit_pc = "solve"
    /\ nsolves' = nsolves + 1
    /\ IF Singular(icov)
       THEN /\ fit_pc' = "raised"
            /\ UNCHANGED <<ipass, amp, local_amps>>
       ELSE /\ fit_pc' = "pass"
            /\ ipass' = ipass + 1
            /\ amp' = [k \in 1 .. Len(fit_inds) |-> Solved]
            /\ local_amps' = [k \in 1 .. Len(fit_inds) |-> Solved]
    /\ UNCHANGED <<src_pix, idiv_zero, npass, fit_inds, icov_pre, icov, nmodels, fit_ret>>

\* variant of FIT_Final: the margin is not widened
FIT_Final_NotWidened ==
    /\ fit_pc = "pass"
    /\ ipass = npass
    /\ LET keep == Sorted(GoodPositions(Apod + ApodMargin))
       IN  /\ fit_inds' = Restrict1(fit_inds, keep)
           /\ amp' = Restrict1(amp, keep)
           /\ icov' = Restrict2(icov, keep)
           /\ local_amps' = Restrict1(local_amps, keep)
    /\ fit_pc' = "done"
    /\ fit_ret' = "final"
    /\ UNCHANGED <<src_pix, idiv_zero, npass, ipass, icov_pre, nmodels, nsolves>>

\* lines 835-843: the widened margin test and the final return
FIT_Final ==
    /\ fit_pc = "pass"
    /\ ipass = npass
    /\ LET keep == Sorted(GoodPositions(Apod + ApodMargin + ApodMargin))
       IN  /\ fit_inds' = Restrict1(fit_inds, keep)
           /\ amp' = Restrict1(amp, keep)
           /\ icov' = Restrict2(icov, keep)
           /\ local_amps' = Restrict1(local_amps, keep)
    /\ fit_pc' = "done"
    /\ fit_ret' = "final"
    /\ UNCHANGED <<src_pix, idiv_zero, npass, ipass, icov_pre, nmodels, nsolves>>

FIT_Next ==
    \/ FIT_Filter /\ UNCHANGED <<gi_vars, md_vars, fa_vars, fs_vars, mm_vars, io_vars, bf_vars, ss_vars, fl_vars, lb_vars, pf_vars>>
    \/ FIT_Apod /\ UNCHANGED <<gi_vars, md_vars, fa_vars, fs_vars, mm_vars, io_vars, bf_vars, ss_vars, fl_vars, lb_vars, pf_vars>>
    \/ FIT_Build /\ UNCHANGED <<gi_vars, md_vars, fa_vars, fs_vars, mm_vars, io_vars, bf_vars, ss_vars, fl_vars, lb_vars, pf_vars>>
    \/ FIT_Symmetrize /\ UNCHANGED <<gi_vars, md_vars, fa_vars, fs_vars, mm_vars, io_vars, bf_vars, ss_vars, fl_vars, lb_vars, pf_vars>>
    \/ FIT_Solve /\ UNCHANGED <<gi_vars, md_vars, fa_vars, fs_vars, mm_vars, io_vars, bf_vars, ss_vars, fl_vars, lb_vars, pf_vars>>
    \/ FIT_Final /\ UNCHANGED <<gi_vars, md_vars, fa_vars, fs_vars, mm_vars, io_vars, bf_vars, ss_vars, fl_vars, lb_vars, pf_vars>>

(***************************************************************************)
(* fit_labeled_srcs (dory.py 180-203)                                      *)
(*                                                                         *)
(* One labelled component on a row of pixels: fl_vals[k] is the value of   *)
(* fmap at pixel k - 1 of the component.  The pixels of a component have   *)
(* one sign (positive and negative matches are labelled apart).  Positions *)
(* and amplitudes are exact fractions <<numerator, denominator>>.          *)
(***************************************************************************)
MaxCompPix == 3

CompMagVals == {1, 2, 5}

ThresholdNum == 11

ThresholdDen == 10

RECURSIVE SeqSum(_)
SeqSum(q) == IF q = <<>> THEN 0 ELSE Head(q) + SeqSum(Tail(q))

\* ndimage.center_of_mass: sum(position*value)/sum(value)
CenterOfMass(v) == Reduced(<<SeqSum([k \in DOMAIN v |-> (k - 1) * v[k]]), SeqSum(v)>>)

\* fmap.at(pos, unit="pix"): the value between the two nearest pixels
InterpAt(v, x) ==
    LET i == x[1] \div x[2]
        t == <<x[1] - i * x[2], x[2]>>
    IN  IF t[1] = 0 THEN <<v[i + 1], 1>>
        ELSE FAdd(FMul(<<t[2] - t[1], t[2]>>, <<v[i + 1], 1>>), FMul(t, <<v[i + 2], 1>>))

\* ndimage.maximum_position and minimum_position: the positions that can be
\* returned.  The position of an extremum is found through an argsort of the
\* values, which fixes no order among equal values, so any pixel holding the
\* extremum can come out.
MaximumPosition(v) == {k - 1 : k \in {i \in DOMAIN v : \A j \in DOMAIN v : v[i] >= v[j]}}

MinimumPosition(v) == {k - 1 : k \in {i \in DOMAIN v : \A j \in DOMAIN v : v[i] <= v[j]}}

\* pos and amp of an extremum at position x
ExtremumAt(v, x) == [pos |-> <<x, 1>>, amp |-> <<v[x + 1], 1>>]

\* np.abs(amp_ext) > np.abs(amp_com)*extended_threshold (line 200)
Extended(ext, com) ==
    Abs(ext.amp[1]) * com.amp[2] * ThresholdDen > Abs(com.amp[1]) * ext.amp[2] * ThresholdNum

\* the results fit_labeled_srcs can return for a component of values v
\* (lines 184-203)
LabeledFits(v) ==
    {LET com == [pos |-> CenterOfMass(v), amp |-> InterpAt(v, CenterOfMass(v))]
         mx  == ExtremumAt(v, xmax)
         mn  == ExtremumAt(v, xmin)
         ext == IF com.amp[1] < 0 THEN mn ELSE mx
     IN  IF Extended(ext, com) THEN mx ELSE com : xmax \in MaximumPosition(v), xmin \in MinimumPosition(v)}

FL_InitInputs ==
    \E sgn \in {-1, 1} :
        fl_vals \in UNION {[1 .. n -> {sgn * a : a \in CompMagVals}] : n \in 1 .. MaxCompPix}

FL_Idle ==
    /\ fl_vals = <<>>
    /\ fl_pc = "idle"
    /\ fl_com = <<>>
    /\ fl_max = <<>>
    /\ fl_min = <<>>
    /\ fl_ext = <<>>
    /\ fl_ret = <<>>

FL_Start ==
    /\ FL_InitInputs
    /\ fl_pc = "start"
    /\ fl_com = <<>>
    /\ fl_max = <<>>
    /\ fl_min = <<>>
    /\ fl_ext = <<>>
    /\ fl_ret = <<>>

\* lines 184-186
FL_Com ==
    /\ fl_pc = "start"
    /\ LET pcom == CenterOfMass(fl_vals)
       IN  fl_com' = [pos |-> pcom, amp |-> InterpAt(fl_vals, pcom)]
    /\ fl_pc' = "com"
    /\ UNCHANGED <<fl_vals, fl_max, fl_min, fl_ext, fl_ret>>

\* lines 192-197
FL_Extrema ==
    /\ fl_pc = "com"
    /\ \E xmax \in MaximumPosition(fl_vals), xmin \in MinimumPosition(fl_vals) :
          LET negative == fl_com.amp[1] < 0
              mx == ExtremumAt(fl_vals, xmax)
              mn == ExtremumAt(fl_vals, xmin)
          IN  /\ fl_max' = mx
              /\ fl_min' = mn
              /\ fl_ext' = IF negative THEN mn ELSE mx
    /\ fl_pc' = "extrema"
    /\ UNCHANGED <<fl_vals, fl_com, fl_ret>>

\* lines 199-203: the extended components get pos_max and amp_max
FL_Return ==
    /\ fl_pc = "extrema"
    /\ fl_ret' = IF Extended(fl_ext, fl_com) THEN fl_max ELSE fl_com
    /\ fl_pc' = "done"
    /\ UNCHANGED <<fl_vals, fl_com, fl_max, fl_min, fl_ext>>

FL_Next ==
    \/ FL_Com /\ UNCHANGED <<gi_vars, md_vars, fa_vars, fit_vars, fs_vars, mm_vars, io_vars, bf_vars, ss_vars, lb_vars, pf_vars>>
    \/ FL_Extrema /\ UNCHANGED <<gi_vars, md_vars, fa_vars, fit_vars, fs_vars, mm_vars, io_vars, bf_vars, ss_vars, lb_vars, pf_vars>>
    \/ FL_Return /\ UNCHANGED <<gi_vars, md_vars, fa_vars, fit_vars, fs_vars, mm_vars, io_vars, bf_vars, ss_vars, lb_vars, pf_vars>>

(***************************************************************************)
(* find_srcs, one pass (dory.py 283-358)                                   *)
(*                                                                         *)
(* The map is a row of FsNPix pixels.  Significances are in units of half  *)
(* a sigma, so snmin = 3.5 is FsSnMin = 7; norm is 1 everywhere, so snmap  *)
(* equals fmap, and idiv is 1 everywhere.  apod_map is given in halves     *)
(* (0, 1/2, 1).  The excursions of the input map are single pixels, no two *)
(* adjacent with the same sign; a residual of a subtraction can join a     *)
(* neighbour, so later components can hold several pixels.  Positions are  *)
(* pixel coordinates counted from 1, as fractions <<numerator,             *)
(* denominator>>, and so are amplitudes.  The template is one pixel wide:  *)
(* the subtraction of line 322 leaves 0 or a residual from FsResidVals in  *)
(* the pixel nearest to the fitted position.                               *)
(***************************************************************************)
MaxComp == 2

MaxBlock == 3

FsNPix == 7

FsSnMin == 7

SnBlockNum == 5

SnBlockDen == 2

FsNorm == 1

FsApodRow == <<0, 1, 2, 2, 2, 1, 0>>

FsPixVals == {-20, 7, 60}

FsResidVals == {0, 7}

FsApodMarginVals == {0, 2}

FsPix == 1 .. FsNPix

\* comparison and arithmetic of fractions <<n, d>> with d > 0
FracLeq(a, b) == a[1] * b[2] <= b[1] * a[2]

FracMin(a, b) == IF FracLeq(a, b) THEN a ELSE b

FracMax(a, b) == IF FracLeq(a, b) THEN b ELSE a

\* matches_pos and matches_neg (lines 299-300)
MatchesPos(m) == {p \in FsPix : m[p] >= FsSnMin}

MatchesNeg(m) == {p \in FsPix : -m[p] >= FsSnMin}

RECURSIVE SetMax(_)
SetMax(S) == IF S = {} THEN 0
             ELSE LET x == CHOOSE y \in S : TRUE
                      r == SetMax(S \ {x})
                  IN  IF x >= r THEN x ELSE r

\* ndimage.label on a row (lines 301-302): the maximal runs of adjacent
\* pixels of the mask S, in scan order, each as <<first, last>>
RunEnd(S, p) == Max({q \in S : q >= p /\ \A x \in p .. q : x \in S})

Runs(S) == LET starts == Sorted({p \in S : (p - 1) \notin S})
           IN  [k \in DOMAIN starts |-> <<starts[k], RunEnd(S, starts[k])>>]

\* the components in label order (lines 301-306): the positive ones in scan
\* order, then the negative ones in scan order
Components(m) == Runs(MatchesPos(m)) \o Runs(MatchesNeg(m))

CompPix(c) == c[1] .. c[2]

\* the values of the map on the pixels of component c
CompVals(m, c) == [k \in 1 .. (c[2] - c[1] + 1) |-> m[c[1] + k - 1]]

\* sn (line 310): the largest |snmap| of each component
CompSn(m, c) == SetMax({Abs(m[p]) \div FsNorm : p \in CompPix(c)})

\* sn of all the components of the map
CompSns(m) == {CompSn(m, Components(m)[k]) : k \in DOMAIN Components(m)}

\* the sequences whose k-th element is taken from the k-th set
RECURSIVE Picks(_)
Picks(sets) == IF sets = <<>> THEN {<<>>}
               ELSE {<<x>> \o rest : x \in Head(sets), rest \in Picks(Tail(sets))}

\* the pixels nearest to position x (utils.nint at line 211 and line 356,
\* order=0 at line 343); halfway between two pixels either can result
Nearest(x) ==
    LET lower == x[1] \div x[2]
        twice == 2 * (x[1] - lower * x[2])
    IN  IF twice < x[2] THEN {lower}
        ELSE IF twice > x[2] THEN {lower + 1}
        ELSE {lower, lower + 1}

\* np.max(np.abs(fmap/norm)*(apod_map>0)) (line 289)
PeakSn(m) == SetMax({IF FsApodRow[p] > 0 THEN Abs(m[p]) \div FsNorm ELSE 0 : p \in FsPix})

\* the cutoff halved instead of divided by snblock
NextSnLim_Halved(lim, m) ==
    LET top == SetMax(CompSns(m))
        low == FracMin(lim, <<top, 1>>)
    IN  FracMax(<<FsSnMin, 1>>, <<low[1], low[2] * 2>>)

\* the cutoff multiplied by snblock instead of divided by it
NextSnLim_Times(lim, m) ==
    LET top == SetMax(CompSns(m))
        low == FracMin(lim, <<top, 1>>)
    IN  FracMax(<<FsSnMin, 1>>, <<low[1] * SnBlockNum, low[2] * SnBlockDen>>)

\* max(snmin, min(sn_lim, np.max(sn))/snblock) (line 312)
NextSnLim(lim, m) ==
    LET top == SetMax(CompSns(m))
        low == FracMin(lim, <<top, 1>>)
    IN  FracMax(<<FsSnMin, 1>>, <<low[1] * SnBlockDen, low[2] * SnBlockNum>>)

\* keep (line 313), in label order
RECURSIVE SelectPix(_, _, _)
SelectPix(sq, m, lim) ==
    IF sq = <<>> THEN <<>>
    ELSE (IF FracLeq(lim, <<CompSn(m, Head(sq)), 1>>) THEN <<Head(sq)>> ELSE <<>>)
         \o SelectPix(Tail(sq), m, lim)

\* the fits fit_labeled_srcs can give for component c (lines 317-319): the
\* position within the map, the amplitude, damp = norm and npix
CompFits(c, m, b) ==
    {[pix |-> FAdd(<<c[1], 1>>, r.pos), amp |-> r.amp, damp |-> FsNorm,
      npix |-> c[2] - c[1] + 1, block |-> b] : r \in LabeledFits(CompVals(m, c))}

\* the fits of the selected components (lines 317-319), one for every
\* component kept
BlockFits(keep, m, b) == Picks([k \in 1 .. Len(keep) |-> CompFits(keep[k], m, b)])

\* fmap -= model (lines 320-322): the pixel pix0[k] nearest to the k-th
\* fit is left with the residual res[k]
Subtracted(m, pix0, res) ==
    [p \in FsPix |-> IF \E k \in DOMAIN pix0 : pix0[k] = p
                     THEN res[CHOOSE k \in DOMAIN pix0 : pix0[k] = p]
                     ELSE m[p]]

\* adiv (line 254) is positive where apod_map is
RmsFinite(p) == FsApodRow[p] > 0

\* rms = adiv**-0.5 = 1/apod_map where it is finite
RmsVal(p) == IF FsApodRow[p] > 0 THEN 2 \div FsApodRow[p] ELSE 0

\* dist_from_apod (line 355): distance to the nearest pixel with apod_map < 1
DistFromApod(p) ==
    LET low == {q \in FsPix : FsApodRow[q] < 2}
    IN  CHOOSE d \in 0 .. FsNPix : /\ \E q \in low : Abs(p - q) = d
                                   /\ \A q \in low : Abs(p - q) >= d

\* the catalogue entry of a fit whose rms is read at pixel rp (lines
\* 343-347); fin tells whether amp and damp are finite
CatEntry(f, rp) ==
    [pix |-> f.pix, fin |-> RmsFinite(rp), amp |-> FMul(f.amp, <<RmsVal(rp), 1>>),
     damp |-> f.damp * RmsVal(rp), npix |-> f.npix]

\* amp[0]/damp[0] is NaN for an entry that is not finite
SnIsNan(e) == ~e.fin

SnOf(e) == FDiv(e.amp, <<e.damp, 1>>)

\* the indices np.argsort(...)[::-1] can put first among S: NaN sorts last,
\* so first after the reversal; otherwise a largest S/N (ties in any order)
FirstOf(ents, S) ==
    IF \E i \in S : SnIsNan(ents[i])
    THEN {i \in S : SnIsNan(ents[i])}
    ELSE {i \in S : \A j \in S : FracLeq(SnOf(ents[j]), SnOf(ents[i]))}

\* the orders np.argsort(...)[::-1] can give for the indices S
RECURSIVE DescendingOrders(_, _)
DescendingOrders(ents, S) ==
    IF S = {} THEN {<<>>}
    ELSE UNION {{<<i>> \o rest : rest \in DescendingOrders(ents, S \ {i})} : i \in FirstOf(ents, S)}

\* cat[mask]
RECURSIVE MaskSeq(_, _)
MaskSeq(sq, mask) ==
    IF sq = <<>> THEN <<>>
    ELSE (IF Head(mask) THEN <<Head(sq)>> ELSE <<>>) \o MaskSeq(Tail(sq), Tail(mask))

IsolatedRow(m) ==
    /\ Cardinality({p \in FsPix : m[p] # 0}) <= MaxComp
    /\ \A p \in 1 .. (FsNPix - 1) : m[p] = 0 \/ m[p + 1] = 0 \/ (m[p] > 0) # (m[p + 1] > 0)

FS_InitInputs ==
    /\ fmap \in {m \in [FsPix -> FsPixVals \cup {0}] : IsolatedRow(m)}
    /\ fs_apod_margin \in FsApodMarginVals
    /\ nblock \in 1 .. MaxBlock

FS_Idle ==
    /\ fmap = <<>>
    /\ fs_apod_margin = 0
    /\ nblock = 0
    /\ fs_pc = "idle"
    /\ iblock = 0
    /\ sn_lim = <<0, 1>>
    /\ fs_peak = <<0, 1>>
    /\ fs_cuts = <<>>
    /\ fs_stop = "none"
    /\ fits = <<>>
    /\ fs_rms = <<>>
    /\ fs_sorted = <<>>
    /\ fs_cat = <<>>

FS_Start ==
    /\ FS_InitInputs
    /\ fs_pc = "start"
    /\ iblock = 0
    /\ sn_lim = <<0, 1>>
    /\ fs_peak = <<0, 1>>
    /\ fs_cuts = <<>>
    /\ fs_stop = "none"
    /\ fits = <<>>
    /\ fs_rms = <<>>
    /\ fs_sorted = <<>>
    /\ fs_cat = <<>>

\* lines 283-289
FS_Begin ==
    /\ fs_pc = "start"
    /\ sn_lim' = <<PeakSn(fmap), 1>>
    /\ fs_peak' = sn_lim'
    /\ fs_pc' = "block"
    /\ UNCHANGED <<fmap, fs_apod_margin, nblock, iblock, fs_cuts, fs_stop, fits, fs_rms, fs_sorted, fs_cat>>

\* sn_lim <= snmin (line 335)
ReachedFloor_Never(lim) == FALSE

ReachedFloor(lim) == FracLeq(lim, <<FsSnMin, 1>>)

\* one iteration of the block loop (lines 290-335)
FS_Block ==
    /\ fs_pc = "block"
    /\ iblock < nblock
    /\ LET comps == Components(fmap)
           lim   == NextSnLim(sn_lim, fmap)
           keep  == SelectPix(comps, fmap, lim)
       IN  IF comps = <<>>
           THEN /\ fs_pc' = "catalog"
                /\ fs_stop' = "nolabel"
                /\ UNCHANGED <<fmap, iblock, sn_lim, fs_cuts, fits>>
           ELSE IF keep = <<>>
           THEN /\ fs_pc' = "catalog"
                /\ fs_stop' = "nokeep"
                /\ sn_lim' = lim
                /\ fs_cuts' = Append(fs_cuts, lim)
                /\ UNCHANGED <<fmap, iblock, fits>>
           ELSE /\ sn_lim' = lim
                /\ fs_cuts' = Append(fs_cuts, lim)
                /\ \E new \in BlockFits(keep, fmap, iblock) :
                      /\ fits' = fits \o new
                      /\ \E pix0 \in Picks([k \in DOMAIN new |-> Nearest(new[k].pix)]),
                            res \in Picks([k \in DOMAIN new |-> FsResidVals]) :
                            fmap' = Subtracted(fmap, pix0, res)
                /\ IF ReachedFloor(lim)
                   THEN fs_pc' = "catalog" /\ fs_stop' = "floor" /\ UNCHANGED iblock
                   ELSE iblock' = iblock + 1 /\ UNCHANGED <<fs_pc, fs_stop>>
    /\ UNCHANGED <<fs_apod_margin, nblock, fs_peak, fs_rms, fs_sorted, fs_cat>>

\* range(nblock) is exhausted
FS_LoopEnd ==
    /\ fs_pc = "block"
    /\ iblock = nblock
    /\ fs_pc' = "catalog"
    /\ fs_stop' = "nblock"
    /\ UNCHANGED <<fmap, fs_apod_margin, nblock, iblock, sn_lim, fs_peak, fs_cuts, fits, fs_rms, fs_sorted, fs_cat>>

\* lines 337-353: the catalogue is built from the fits and ordered by S/N
FS_Catalog ==
    /\ fs_pc = "catalog"
    /\ \E rpix \in Picks([k \in 1 .. Len(fits) |-> Nearest(fits[k].pix)]) :
          /\ fs_rms' = [k \in 1 .. Len(fits) |-> [fin |-> RmsFinite(rpix[k]), val |-> RmsVal(rpix[k])]]
          /\ LET ents == [n \in 1 .. Len(fits) |-> CatEntry(fits[n], rpix[n])]
             IN  \E order \in DescendingOrders(ents, DOMAIN ents) :
                    fs_sorted' = [n \in 1 .. Len(ents) |-> ents[order[n]]]
    /\ fs_pc' = "reject"
    /\ UNCHANGED <<fmap, fs_apod_margin, nblock, iblock, sn_lim, fs_peak, fs_cuts, fs_stop, fits, fs_cat>>

\* lines 354-358: untainted combines dist_from_apod at the positions of the
\* ordered cat with np.isfinite(rms), rms being in the order of fits
FS_Reject ==
    /\ fs_pc = "reject"
    /\ \E ipix \in Picks([k \in 1 .. Len(fs_sorted) |-> Nearest(fs_sorted[k].pix)]) :
          LET untainted == [k \in 1 .. Len(fs_sorted) |->
                               /\ DistFromApod(ipix[k]) >= fs_apod_margin
                               /\ fs_rms[k].fin]
          IN  fs_cat' = MaskSeq(fs_sorted, untainted)
    /\ fs_pc' = "done"
    /\ UNCHANGED <<fmap, fs_apod_margin, nblock, iblock, sn_lim, fs_peak, fs_cuts, fs_stop, fits, fs_rms, fs_sorted>>

FS_Next ==
    \/ FS_Begin /\ UNCHANGED <<gi_vars, md_vars, fa_vars, fit_vars, mm_vars, io_vars, bf_vars, ss_vars, fl_vars, lb_vars, pf_vars>>
    \/ FS_Block /\ UNCHANGED <<gi_vars, md_vars, fa_vars, fit_vars, mm_vars, io_vars, bf_vars, ss_vars, fl_vars, lb_vars, pf_vars>>
    \/ FS_LoopEnd /\ UNCHANGED <<gi_vars, md_vars, fa_vars, fit_vars, mm_vars, io_vars, bf_vars, ss_vars, fl_vars, lb_vars, pf_vars>>
    \/ FS_Catalog /\ UNCHANGED <<gi_vars, md_vars, fa_vars, fit_vars, mm_vars, io_vars, bf_vars, ss_vars, fl_vars, lb_vars, pf_vars>>
    \/ FS_Reject /\ UNCHANGED <<gi_vars, md_vars, fa_vars, fit_vars, mm_vars, io_vars, bf_vars, ss_vars, fl_vars, lb_vars, pf_vars>>

(***************************************************************************)
(* merge_maps_onto and build_merge_weight (dory.py 1054-1102)              *)
(*                                                                         *)
(* Maps are one pixel high, so a map is its first pixel lo in the output   *)
(* row and its row of values.  Weights are kept as multiples of            *)
(* 1/MmScale, which every map length divides.  A message to the root waits *)
(* in the channel of its source rank until the root receives it; messages  *)
(* of one source are received in the order they were sent.                 *)
(***************************************************************************)
MaxRank == 2

MaxMaps == 2

MmNOut == 3

MmScale == 6

MapVals == {[lo |-> 1, vals |-> <<1, 3>>], [lo |-> 1, vals |-> <<2, 0, 4>>]}

MmPix == 1 .. MmNOut

\* build_merge_weight along an axis of n pixels, pixel x counted from 0:
\* 1-2*abs(x-(n-1)/2)/n, times MmScale
AxisWeight(n, x) == (MmScale * (n - Abs(2 * x - (n - 1)))) \div n

\* weights[0][x] = wy[0]*wx[x] of a map of one row and n columns, times MmScale
MergeWeight(n, x) == (AxisWeight(1, 0) * AxisWeight(n, x)) \div MmScale

\* enmap.insert / enmap.insert_at with op=np.add: row vals added from pixel lo on
InsertAdd(row, lo, vals) ==
    [p \in MmPix |-> IF p >= lo /\ p < lo + Len(vals) THEN row[p] + vals[p - lo + 1] ELSE row[p]]

\* imap*idiv and idiv for a map
WeightedVals(vals) == [x \in 1 .. Len(vals) |-> vals[x] * MergeWeight(Len(vals), x - 1)]

WeightVals(vals) == [x \in 1 .. Len(vals) |-> MergeWeight(Len(vals), x - 1)]

\* the loop of lines 1075-1078 over the maps sq, applied to a row
RECURSIVE InsertAll(_, _, _)
InsertAll(row, sq, weighted) ==
    IF sq = <<>> THEN row
    ELSE InsertAll(InsertAdd(row, Head(sq).lo,
                             IF weighted THEN WeightedVals(Head(sq).vals) ELSE WeightVals(Head(sq).vals)),
                   Tail(sq), weighted)

\* variant of Divided: 0/0 is left as it is
Divided_NanKept(num, den) == [p \in MmPix |-> <<num[p], den[p]>>]

\* omap /= odiv followed by np.nan_to_num (lines 1090-1091): a fraction
\* <<numerator, denominator>> per pixel, 0/0 replaced by 0
Divided(num, den) == [p \in MmPix |-> IF den[p] = 0 THEN <<0, 1>> ELSE <<num[p], den[p]>>]

MapLists == UNION {[1 .. n -> MapVals] : n \in 0 .. MaxMaps}

Message(kind, n, lo, vals) == [kind |-> kind, n |-> n, lo |-> lo, vals |-> vals]

MM_InitInputs ==
    /\ mm_size \in 1 .. MaxRank
    /\ mm_root \in 0 .. (mm_size - 1)
    /\ mm_dtype \in {"none", "given"}
    /\ maplist \in [0 .. (mm_size - 1) -> MapLists]

MM_Idle ==
    /\ mm_size = 0
    /\ mm_root = 0
    /\ mm_dtype = "none"
    /\ maplist = <<>>
    /\ mm_pc = <<>>
    /\ mm_sent = <<>>
    /\ chan = <<>>
    /\ mm_ri = 0
    /\ mm_rpc = "count"
    /\ mm_nmap = 0
    /\ mm_i = 0
    /\ mm_pbox = <<0, 0>>
    /\ omap = <<>>
    /\ odiv = <<>>
    /\ mm_out = <<>>

MM_Start ==
    /\ MM_InitInputs
    /\ mm_pc = [r \in 0 .. (mm_size - 1) |-> "start"]
    /\ mm_sent = [r \in 0 .. (mm_size - 1) |-> 0]
    /\ chan = [r \in 0 .. (mm_size - 1) |-> <<>>]
    /\ mm_ri = 0
    /\ mm_rpc = "count"
    /\ mm_nmap = 0
    /\ mm_i = 0
    /\ mm_pbox = <<0, 0>>
    /\ omap = <<>>
    /\ odiv = <<>>
    /\ mm_out = [r \in 0 .. (mm_size - 1) |-> "none"]

\* lines 1065-1071 and 1093-1095: maplist[0].dtype raises IndexError on an
\* empty maplist when dtype is None; the root allocates omap and odiv
MM_Enter(r) ==
    /\ mm_pc[r] = "start"
    /\ IF mm_dtype = "none" /\ maplist[r] = <<>>
       THEN /\ mm_pc' = [mm_pc EXCEPT ![r] = "raised"]
            /\ UNCHANGED <<omap, odiv>>
       ELSE IF r = mm_root
       THEN /\ mm_pc' = [mm_pc EXCEPT ![r] = "root"]
            /\ omap' = [p \in MmPix |-> 0]
            /\ odiv' = [p \in MmPix |-> 0]
       ELSE /\ mm_pc' = [mm_pc EXCEPT ![r] = "count"]
            /\ UNCHANGED <<omap, odiv>>
    /\ UNCHANGED <<mm_size, mm_root, mm_dtype, maplist, mm_sent, chan, mm_ri, mm_rpc, mm_nmap, mm_i, mm_pbox, mm_out>>

\* line 1096, and line 1102 when there is no map to send
MM_SendCount(r) ==
    /\ mm_pc[r] = "count"
    /\ chan' = [chan EXCEPT ![r] = Append(@, Message("count", Len(maplist[r]), 0, <<>>))]
    /\ IF Len(maplist[r]) = 0
       THEN /\ mm_pc' = [mm_pc EXCEPT ![r] = "done"]
            /\ mm_out' = [mm_out EXCEPT ![r] = "None"]
       ELSE /\ mm_pc' = [mm_pc EXCEPT ![r] = "box"]
            /\ UNCHANGED mm_out
    /\ UNCHANGED <<mm_size, mm_root, mm_dtype, maplist, mm_sent, mm_ri, mm_rpc, mm_nmap, mm_i, mm_pbox, omap, odiv>>

\* lines 1098-1100
MM_SendBox(r) ==
    /\ mm_pc[r] = "box"
    /\ LET m == maplist[r][mm_sent[r] + 1]
       IN  chan' = [chan EXCEPT ![r] = Append(@, Message("box", Len(m.vals), m.lo, <<>>))]
    /\ mm_pc' = [mm_pc EXCEPT ![r] = "data"]
    /\ UNCHANGED <<mm_size, mm_root, mm_dtype, maplist, mm_sent, mm_ri, mm_rpc, mm_nmap, mm_i, mm_pbox, omap, odiv, mm_out>>

\* line 1101, and line 1102 after the last map
MM_SendData(r) ==
    /\ mm_pc[r] = "data"
    /\ LET m == maplist[r][mm_sent[r] + 1]
       IN  chan' = [chan EXCEPT ![r] = Append(@, Message("data", 0, 0, m.vals))]
    /\ mm_sent' = [mm_sent EXCEPT ![r] = @ + 1]
    /\ IF mm_sent[r] + 1 = Len(maplist[r])
       THEN /\ mm_pc' = [mm_pc EXCEPT ![r] = "done"]
            /\ mm_out' = [mm_out EXCEPT ![r] = "None"]
       ELSE /\ mm_pc' = [mm_pc EXCEPT ![r] = "box"]
            /\ UNCHANGED mm_out
    /\ UNCHANGED <<mm_size, mm_root, mm_dtype, maplist, mm_ri, mm_rpc, mm_nmap, mm_i, mm_pbox, omap, odiv>>

\* lines 1073-1078: the root's own maps
MM_RootSelf ==
    /\ mm_pc[mm_root] = "root"
    /\ mm_ri < mm_size
    /\ mm_ri = mm_root
    /\ omap' = InsertAll(omap, maplist[mm_root], TRUE)
    /\ odiv' = InsertAll(odiv, maplist[mm_root], FALSE)
    /\ mm_ri' = mm_ri + 1
    /\ UNCHANGED <<mm_size, mm_root, mm_dtype, maplist, mm_pc, mm_sent, chan, mm_rpc, mm_nmap, mm_i, mm_pbox, mm_out>>

\* line 1081
MM_RootRecvCount ==
    /\ mm_pc[mm_root] = "root"
    /\ mm_ri < mm_size
    /\ mm_ri # mm_root
    /\ mm_rpc = "count"
    /\ chan[mm_ri] # <<>>
    /\ Head(chan[mm_ri]).kind = "count"
    /\ chan' = [chan EXCEPT ![mm_ri] = Tail(@)]
    /\ mm_nmap' = Head(chan[mm_ri]).n
    /\ mm_i' = 0
    /\ IF Head(chan[mm_ri]).n = 0
       THEN mm_ri' = mm_ri + 1 /\ UNCHANGED mm_rpc
       ELSE mm_rpc' = "box" /\ UNCHANGED mm_ri
    /\ UNCHANGED <<mm_size, mm_root, mm_dtype, maplist, mm_pc, mm_sent, mm_pbox, omap, odiv, mm_out>>

\* lines 1083-1085
MM_RootRecvBox ==
    /\ mm_pc[mm_root] = "root"
    /\ mm_ri < mm_size
    /\ mm_rpc = "box"
    /\ chan[mm_ri] # <<>>
    /\ Head(chan[mm_ri]).kind = "box"
    /\ chan' = [chan EXCEPT ![mm_ri] = Tail(@)]
    /\ mm_pbox' = <<Head(chan[mm_ri]).lo, Head(chan[mm_ri]).lo + Head(chan[mm_ri]).n>>
    /\ mm_rpc' = "data"
    /\ UNCHANGED <<mm_size, mm_root, mm_dtype, maplist, mm_pc, mm_sent, mm_ri, mm_nmap, mm_i, omap, odiv, mm_out>>

\* lines 1086-1088
MM_RootRecvData ==
    /\ mm_pc[mm_root] = "root"
    /\ mm_ri < mm_size
    /\ mm_rpc = "data"
    /\ chan[mm_ri] # <<>>
    /\ Head(chan[mm_ri]).kind = "data"
    /\ Len(Head(chan[mm_ri]).vals) = mm_pbox[2] - mm_pbox[1]
    /\ chan' = [chan EXCEPT ![mm_ri] = Tail(@)]
    /\ omap' = InsertAdd(omap, mm_pbox[1], WeightedVals(Head(chan[mm_ri]).vals))
    /\ odiv' = InsertAdd(odiv, mm_pbox[1], WeightVals(Head(chan[mm_ri]).vals))
    /\ mm_i' = mm_i + 1
    /\ IF mm_i + 1 = mm_nmap
       THEN mm_ri' = mm_ri + 1 /\ mm_rpc' = "count"
       ELSE mm_rpc' = "box" /\ UNCHANGED mm_ri
    /\ UNCHANGED <<mm_size, mm_root, mm_dtype, maplist, mm_pc, mm_sent, mm_nmap, mm_pbox, mm_out>>

\* lines 1089-1092
MM_RootFinish ==
    /\ mm_pc[mm_root] = "root"
    /\ mm_ri = mm_size
    /\ omap' = Divided(omap, odiv)
    /\ mm_pc' = [mm_pc EXCEPT ![mm_root] = "done"]
    /\ mm_out' = [mm_out EXCEPT ![mm_root] = "omap"]
    /\ UNCHANGED <<mm_size, mm_root, mm_dtype, maplist, mm_sent, chan, mm_ri, mm_rpc, mm_nmap, mm_i, mm_pbox, odiv>>

MM_Next ==
    \/ (\E r \in DOMAIN mm_pc : MM_Enter(r)) /\ UNCHANGED <<gi_vars, md_vars, fa_vars, fit_vars, fs_vars, io_vars, bf_vars, ss_vars, fl_vars, lb_vars, pf_vars>>
    \/ (\E r \in DOMAIN mm_pc : MM_SendCount(r)) /\ UNCHANGED <<gi_vars, md_vars, fa_vars, fit_vars, fs_vars, io_vars, bf_vars, ss_vars, fl_vars, lb_vars, pf_vars>>
    \/ (\E r \in DOMAIN mm_pc : MM_SendBox(r)) /\ UNCHANGED <<gi_vars, md_vars, fa_vars, fit_vars, fs_vars, io_vars, bf_vars, ss_vars, fl_vars, lb_vars, pf_vars>>
    \/ (\E r \in DOMAIN mm_pc : MM_SendData(r)) /\ UNCHANGED <<gi_vars, md_vars, fa_vars, fit_vars, fs_vars, io_vars, bf_vars, ss_vars, fl_vars, lb_vars, pf_vars>>
    \/ MM_RootSelf /\ UNCHANGED <<gi_vars, md_vars, fa_vars, fit_vars, fs_vars, io_vars, bf_vars, ss_vars, fl_vars, lb_vars, pf_vars>>
    \/ MM_RootRecvCount /\ UNCHANGED <<gi_vars, md_vars, fa_vars, fit_vars, fs_vars, io_vars, bf_vars, ss_vars, fl_vars, lb_vars, pf_vars>>
    \/ MM_RootRecvBox /\ UNCHANGED <<gi_vars, md_vars, fa_vars, fit_vars, fs_vars, io_vars, bf_vars, ss_vars, fl_vars, lb_vars, pf_vars>>
    \/ MM_RootRecvData /\ UNCHANGED <<gi_vars, md_vars, fa_vars, fit_vars, fs_vars, io_vars, bf_vars, ss_vars, fl_vars, lb_vars, pf_vars>>
    \/ MM_RootFinish /\ UNCHANGED <<gi_vars, md_vars, fa_vars, fit_vars, fs_vars, io_vars, bf_vars, ss_vars, fl_vars, lb_vars, pf_vars>>

(***************************************************************************)
(* write_catalog and read_catalog (dory.py 877-928)                        *)
(*                                                                         *)
(* Angles are whole multiples of a unit of which utils.degree holds        *)
(* Degree; amplitudes are whole uK and fluxes whole Jy.  A number printed  *)
(* with "%9.4f" is the count of its 1e-4 steps (FmtQuant per unit), one    *)
(* printed with "%8.3f" the count of its 1e-3 steps; printing rounds to    *)
(* the nearest step.  A table column of the binary format and a field read *)
(* back are exact fractions <<numerator, denominator>>.                    *)
(***************************************************************************)
MaxRows == 3

Degree == 60

Kilo == 1000

FmtQuant == 10000

SnrQuant == 1000

RowVals ==
    {[ra |-> 3, dec |-> 6, amp |-> <<7, 2, 3>>, damp |-> <<1, 4, 5>>, flux |-> <<8, 9, 10>>,
      dflux |-> <<11, 12, 13>>, npix |-> 14, status |-> 0],
     [ra |-> 9, dec |-> 3, amp |-> <<20, 21, 22>>, damp |-> <<2, 23, 24>>, flux |-> <<25, 26, 27>>,
      dflux |-> <<28, 29, 30>>, npix |-> 31, status |-> 1],
     [ra |-> 6, dec |-> 9, amp |-> <<40, 41, 42>>, damp |-> <<5, 43, 44>>, flux |-> <<45, 46, 47>>,
      dflux |-> <<48, 49, 50>>, npix |-> 51, status |-> 2],
     [ra |-> 1, dec |-> 2, amp |-> <<2, 60, 61>>, damp |-> <<3, 62, 63>>, flux |-> <<64, 65, 66>>,
      dflux |-> <<67, 68, 69>>, npix |-> 70, status |-> 0]}

NameVals == {"cat.fits", "cat.txt", "cat"}

\* ofile.endswith(".fits") (lines 878, 882)
IsFits(name) == name = "cat.fits"

\* the whole numbers nearest to num/den, den > 0; of a value halfway
\* between two the floating point value printed can lie on either side
Rounded(num, den) ==
    LET lower == num \div den
        twice == 2 * (num - lower * den)
    IN  IF twice < den THEN {lower}
        ELSE IF twice > den THEN {lower + 1}
        ELSE {lower, lower + 1}

\* value num/den printed with "%9.4f" and with "%8.3f": the counts of steps
\* that can be printed
Fmt4(num, den) == Rounded(num * FmtQuant, den)

Fmt3(num, den) == Rounded(num * SnrQuant, den)

\* the rows write_catalog_txt can print for an entry (lines 885-898),
\* columns 0 to 16
TxtRow(e) ==
    Picks(<<Fmt4(e.ra, Degree), Fmt4(e.dec, Degree), Fmt3(e.amp[1], e.damp[1]),
            Fmt4(e.amp[1], Kilo), Fmt4(e.damp[1], Kilo),
            Fmt4(e.amp[2], Kilo), Fmt4(e.damp[2], Kilo),
            Fmt4(e.amp[3], Kilo), Fmt4(e.damp[3], Kilo),
            Fmt4(e.flux[1] * Kilo, 1), Fmt4(e.dflux[1] * Kilo, 1),
            Fmt4(e.flux[2] * Kilo, 1), Fmt4(e.dflux[2] * Kilo, 1),
            Fmt4(e.flux[3] * Kilo, 1), Fmt4(e.dflux[3] * Kilo, 1),
            {e.npix}, {e.status}>>)

\* data[c] of a row, c counted from 0
Col(row, c) == row[c + 1]

\* data[a:b:2].T for one row
Cols3(row, a) == <<Col(row, a), Col(row, a + 2), Col(row, a + 4)>>

\* a printed count of 1e-4 steps times num/den
Parsed(q, num, den) == Reduced(<<q * num, FmtQuant * den>>)

\* one entry of read_catalog_txt (lines 912-918)
TxtEntry(row) ==
    [ra |-> Parsed(Col(row, 0), Degree, 1), dec |-> Parsed(Col(row, 1), Degree, 1),
     amp |-> [k \in 1 .. 3 |-> Parsed(Cols3(row, 3)[k], Kilo, 1)],
     damp |-> [k \in 1 .. 3 |-> Parsed(Cols3(row, 4)[k], Kilo, 1)],
     flux |-> [k \in 1 .. 3 |-> Parsed(Cols3(row, 9)[k], 1, Kilo)],
     dflux |-> [k \in 1 .. 3 |-> Parsed(Cols3(row, 10)[k], 1, Kilo)],
     npix |-> <<Col(row, 15), 1>>, status |-> <<Col(row, 16), 1>>]

\* one table row of write_catalog_fits (lines 903-905)
FitsRow(e) ==
    [ra |-> <<e.ra, Degree>>, dec |-> <<e.dec, Degree>>,
     amp |-> [k \in 1 .. 3 |-> <<e.amp[k], Kilo>>], damp |-> [k \in 1 .. 3 |-> <<e.damp[k], Kilo>>],
     flux |-> [k \in 1 .. 3 |-> <<e.flux[k] * Kilo, 1>>], dflux |-> [k \in 1 .. 3 |-> <<e.dflux[k] * Kilo, 1>>],
     npix |-> e.npix, status |-> e.status]

\* a column value times num/den
Scaled2(f, num, den) == Reduced(<<f[1] * num, f[2] * den>>)

\* one entry of read_catalog_fits (lines 925-927)
FitsEntry(row) ==
    [ra |-> Scaled2(row.ra, Degree, 1), dec |-> Scaled2(row.dec, Degree, 1),
     amp |-> [k \in 1 .. 3 |-> Scaled2(row.amp[k], Kilo, 1)],
     damp |-> [k \in 1 .. 3 |-> Scaled2(row.damp[k], Kilo, 1)],
     flux |-> [k \in 1 .. 3 |-> Scaled2(row.flux[k], 1, Kilo)],
     dflux |-> [k \in 1 .. 3 |-> Scaled2(row.dflux[k], 1, Kilo)],
     npix |-> <<row.npix, 1>>, status |-> <<row.status, 1>>]

IO_InitInputs ==
    /\ io_cat \in UNION {[1 .. n -> RowVals] : n \in 0 .. MaxRows}
    /\ io_name \in NameVals

IO_Idle ==
    /\ io_cat = <<>>
    /\ io_name = ""
    /\ io_pc = "idle"
    /\ io_file = <<>>
    /\ io_back = <<>>

IO_Start ==
    /\ IO_InitInputs
    /\ io_pc = "start"
    /\ io_file = <<>>
    /\ io_back = <<>>

\* write_catalog (lines 877-879) with write_catalog_fits or write_catalog_txt
IO_Write ==
    /\ io_pc = "start"
    /\ IF IsFits(io_name)
       THEN io_file' = [fmt |-> "fits", rows |-> [k \in DOMAIN io_cat |-> FitsRow(io_cat[k])]]
       ELSE \E rows \in Picks([k \in DOMAIN io_cat |-> TxtRow(io_cat[k])]) :
               io_file' = [fmt |-> "txt", rows |-> rows]
    /\ io_pc' = "written"
    /\ UNCHANGED <<io_cat, io_name, io_back>>

\* read_catalog (lines 881-883) with read_catalog_fits
IO_ReadFits ==
    /\ io_pc = "written"
    /\ IsFits(io_name)
    /\ io_back' = [k \in DOMAIN io_file.rows |-> FitsEntry(io_file.rows[k])]
    /\ io_pc' = "read"
    /\ UNCHANGED <<io_cat, io_name, io_file>>

\* read_catalog (lines 881-883) with read_catalog_txt: of a file without
\* rows np.loadtxt(ifile, ndmin=2) has shape (0,1), data has one row and the
\* unpacking of data[0:2] into cat.ra, cat.dec (line 912) raises ValueError
IO_ReadTxt ==
    /\ io_pc = "written"
    /\ ~IsFits(io_name)
    /\ IF Len(io_file.rows) = 0
       THEN io_pc' = "raised" /\ UNCHANGED io_back
       ELSE /\ io_back' = [k \in DOMAIN io_file.rows |-> TxtEntry(io_file.rows[k])]
            /\ io_pc' = "read"
    /\ UNCHANGED <<io_cat, io_name, io_file>>

IO_Next ==
    \/ IO_Write /\ UNCHANGED <<gi_vars, md_vars, fa_vars, fit_vars, fs_vars, mm_vars, bf_vars, ss_vars, fl_vars, lb_vars, pf_vars>>
    \/ IO_ReadFits /\ UNCHANGED <<gi_vars, md_vars, fa_vars, fit_vars, fs_vars, mm_vars, bf_vars, ss_vars, fl_vars, lb_vars, pf_vars>>
    \/ IO_ReadTxt /\ UNCHANGED <<gi_vars, md_vars, fa_vars, fit_vars, fs_vars, mm_vars, bf_vars, ss_vars, fl_vars, lb_vars, pf_vars>>

(***************************************************************************)
(* build_filter (dory.py 155-162)                                          *)
(*                                                                         *)
(* Maps have BfSide pixels a side, for which the discrete Fourier          *)
(* transform of a real map is real, and hold exact fractions               *)
(* <<numerator, denominator>>.                                             *)
(***************************************************************************)
BfSide == 2

BfPix == (0 .. BfSide - 1) \X (0 .. BfSide - 1)

BeamPeakVals == {1, 2}

BeamVals == {0, 1, 2}

PsVals == {1, 2}

\* the sum of a map over its pixels
PixSum(f) == FAdd(FAdd(f[<<0, 0>>], f[<<0, 1>>]), FAdd(f[<<1, 0>>], f[<<1, 1>>]))

\* exp(-2 pi i (k.n)/BfSide), the kernel of the transform
Kernel(k, n) == IF (k[1] * n[1] + k[2] * n[2]) % 2 = 0 THEN <<1, 1>> ELSE <<-1, 1>>

\* enmap.fft and enmap.ifft with normalize=True: the transform divided by
\* the square root of the number of pixels
Transform(f) == [k \in BfPix |-> FMul(<<1, BfSide>>, PixSum([n \in BfPix |-> FMul(Kernel(k, n), f[n])]))]

\* filter /= norm (line 161)
Normalized_Skip(f, norm) == f

Normalized(f, norm) == [k \in BfPix |-> FDiv(f[k], norm)]

\* enmap.ifft(enmap.fft(m)*filter).real[0,0] (line 160)
ResponseAt0(m, f) == Transform([k \in BfPix |-> FMul(Transform(m)[k], f[k])])[<<0, 0>>]

BF_InitInputs ==
    /\ bf_beam \in {b \in [BfPix -> BeamVals] : b[<<0, 0>>] \in BeamPeakVals}
    /\ bf_ps \in [BfPix -> PsVals]

BF_Idle ==
    /\ bf_beam = <<>>
    /\ bf_ps = <<>>
    /\ bf_pc = "idle"
    /\ bf_filter = <<>>
    /\ bf_m = <<>>
    /\ bf_norm = <<0, 1>>

BF_Start ==
    /\ BF_InitInputs
    /\ bf_pc = "start"
    /\ bf_filter = <<>>
    /\ bf_m = <<>>
    /\ bf_norm = <<0, 1>>

\* filter = beam2d/ps (line 157)
BF_Filter ==
    /\ bf_pc = "start"
    /\ bf_filter' = [k \in BfPix |-> Reduced(<<bf_beam[k], bf_ps[k]>>)]
    /\ bf_pc' = "filter"
    /\ UNCHANGED <<bf_beam, bf_ps, bf_m, bf_norm>>

\* m = enmap.ifft(beam2d+0j).real; m /= m[0,0] (lines 158-159)
BF_Template ==
    /\ bf_pc = "filter"
    /\ LET m == Transform([k \in BfPix |-> <<bf_beam[k], 1>>])
       IN  bf_m' = [n \in BfPix |-> FDiv(m[n], m[<<0, 0>>])]
    /\ bf_pc' = "template"
    /\ UNCHANGED <<bf_beam, bf_ps, bf_filter, bf_norm>>

\* norm = enmap.ifft(enmap.fft(m)*filter).real[0,0] (line 160)
BF_Norm ==
    /\ bf_pc = "template"
    /\ bf_norm' = ResponseAt0(bf_m, bf_filter)
    /\ bf_pc' = "norm"
    /\ UNCHANGED <<bf_beam, bf_ps, bf_filter, bf_m>>

\* filter /= norm; return filter (lines 161-162)
BF_Return ==
    /\ bf_pc = "norm"
    /\ bf_filter' = Normalized(bf_filter, bf_norm)
    /\ bf_pc' = "done"
    /\ UNCHANGED <<bf_beam, bf_ps, bf_m, bf_norm>>

BF_Next ==
    \/ BF_Filter /\ UNCHANGED <<gi_vars, md_vars, fa_vars, fit_vars, fs_vars, mm_vars, io_vars, ss_vars, fl_vars, lb_vars, pf_vars>>
    \/ BF_Template /\ UNCHANGED <<gi_vars, md_vars, fa_vars, fit_vars, fs_vars, mm_vars, io_vars, ss_vars, fl_vars, lb_vars, pf_vars>>
    \/ BF_Norm /\ UNCHANGED <<gi_vars, md_vars, fa_vars, fit_vars, fs_vars, mm_vars, io_vars, ss_vars, fl_vars, lb_vars, pf_vars>>
    \/ BF_Return /\ UNCHANGED <<gi_vars, md_vars, fa_vars, fit_vars, fs_vars, mm_vars, io_vars, ss_vars, fl_vars, lb_vars, pf_vars>>

(***************************************************************************)
(* SrcScan.select (ptsrc_data/src_scan.py 48-92)                           *)
(*                                                                         *)
(* Arrays are sequences whose first element has Python index 0.  Every     *)
(* array is an object of ss_heap: the arrays of self are "self.tod",       *)
(* "self.point", ..., the arrays select creates are "tod", "point", ...    *)
(***************************************************************************)
MaxScanSrc == 2

ScanDet == 2

ScanSamp == 6

\* self.ranges: contiguous sample ranges [i1, i2) of the flattened tod
ScanRanges == <<<<0, 2>>, <<2, 3>>, <<4, 6>>>>

\* the range sets a (source, detector) pair can have
RangeSetVals == {<<>>, <<0, 2>>, <<2, 1>>}

TodBase == 10

PointBase == 20

PhaseBase == 30

\* a[i] and a[i1:i2]
At(a, i) == a[i + 1]

Slice(a, i1, i2) == [k \in 1 .. (i2 - i1) |-> a[i1 + k]]

\* np.arange(n)
ARange(n) == [k \in 1 .. n |-> k - 1]

\* the (row, column) pairs of an nr x nc array in the order of the nested loops
PairAt(k, nc) == <<(k - 1) \div nc, (k - 1) % nc>>

ScanPairs == (0 .. MaxScanSrc - 1) \X (0 .. ScanDet - 1)

\* rangesets and offsets of a scan whose pairs have the range sets c
RECURSIVE BuiltUpTo(_, _)
BuiltUpTo(c, k) ==
    IF k = 0 THEN [off |-> <<>>, rs |-> <<>>]
    ELSE LET prev == BuiltUpTo(c, k - 1)
             pr == PairAt(k, ScanDet)
         IN  [off |-> prev.off @@ (pr :> <<Len(prev.rs), Len(prev.rs) + Len(c[pr])>>),
              rs |-> prev.rs \o c[pr]]

Scan(c) ==
    LET b == BuiltUpTo(c, MaxScanSrc * ScanDet)
    IN  [tod |-> [k \in 1 .. ScanSamp |-> TodBase + k - 1],
         point |-> [k \in 1 .. ScanSamp |-> PointBase + k - 1],
         phase |-> [k \in 1 .. ScanSamp |-> PhaseBase + k - 1],
         ranges |-> ScanRanges, rangesets |-> b.rs, offsets |-> b.off]

\* index arrays without repeated entries
RECURSIVE Selections(_, _)
Selections(S, n) ==
    IF n = 0 THEN {<<>>}
    ELSE LET shorter == Selections(S, n - 1)
         IN  shorter \cup {Append(q, x) : q \in {r \in shorter : Len(r) = n - 1}, x \in S}

Injective(q) == \A i, j \in DOMAIN q : q[i] = q[j] => i = j

SrcSelVals == {q \in Selections(0 .. MaxScanSrc - 1, MaxScanSrc) : Injective(q)}

DetSelVals == {q \in Selections(0 .. ScanDet - 1, ScanDet) : Injective(q) /\ Len(q) > 0}

\* np.all(sel == np.arange(n)) (line 51): "yes", "no", or "mismatch" when
\* the shapes cannot be broadcast
AllEqualARange(sel, n) ==
    IF Len(sel) = n THEN (IF sel = ARange(n) THEN "yes" ELSE "no")
    ELSE IF Len(sel) = 1 THEN (IF \A i \in 0 .. n - 1 : sel[1] = i THEN "yes" ELSE "no")
    ELSE IF n = 1 THEN (IF \A k \in DOMAIN sel : sel[k] = 0 THEN "yes" ELSE "no")
    ELSE "mismatch"

\* step 1 (lines 54-63): offsets and the list of range sets after k pairs
RECURSIVE SlicedUpTo(_, _, _, _, _)
SlicedUpTo(offs, rsets, srcs, dets, k) ==
    IF k = 0 THEN [off |-> <<>>, rs |-> <<>>, n |-> 0]
    ELSE LET prev == SlicedUpTo(offs, rsets, srcs, dets, k - 1)
             pr == PairAt(k, Len(dets))
             o == offs[<<At(srcs, pr[1]), At(dets, pr[2])>>]
         IN  [off |-> prev.off @@ (pr :> <<prev.n, prev.n + (o[2] - o[1])>>),
              rs |-> prev.rs \o Slice(rsets, o[1], o[2]),
              n |-> prev.n + (o[2] - o[1])]

\* np.nonzero(used)[0] (lines 67-69)
RMap(rsets) == Sorted(Range(rsets))

\* irmap (lines 70-71)
IRMap(rsets, nrange) ==
    LET rmap == RMap(rsets)
    IN  [r \in 0 .. nrange - 1 |->
            IF r \in Range(rmap) THEN (CHOOSE k \in DOMAIN rmap : rmap[k] = r) - 1 ELSE 0]

\* the object the name ranges is bound to by self.ranges[rmap] (line 73)
RangesObject_View == "self.ranges"

RangesObject == "ranges"

\* a[o1:o2] = b[i1:i2]
Assigned(a, o1, o2, b, i1) == [k \in DOMAIN a |-> IF k > o1 /\ k <= o2 THEN b[i1 + (k - o1)] ELSE a[k]]

RECURSIVE TotalLength(_)
TotalLength(ranges) ==
    IF ranges = <<>> THEN 0 ELSE (Head(ranges)[2] - Head(ranges)[1]) + TotalLength(Tail(ranges))

SelfRefs ==
    [tod |-> "self.tod", point |-> "self.point", phase |-> "self.phase",
     ranges |-> "self.ranges", rangesets |-> "self.rangesets", offsets |-> "self.offsets"]

NewRefs ==
    [tod |-> "tod", point |-> "point", phase |-> "phase",
     ranges |-> RangesObject, rangesets |-> "rangesets", offsets |-> "offsets"]

HeapOf(scan) ==
    [o \in {"self.tod", "self.point", "self.phase", "self.ranges", "self.rangesets", "self.offsets",
            "tod", "point", "phase", "ranges", "rangesets", "offsets"} |->
        IF o = "self.tod" THEN scan.tod
        ELSE IF o = "self.point" THEN scan.point
        ELSE IF o = "self.phase" THEN scan.phase
        ELSE IF o = "self.ranges" THEN scan.ranges
        ELSE IF o = "self.rangesets" THEN scan.rangesets
        ELSE IF o = "self.offsets" THEN scan.offsets
        ELSE <<>>]

SS_InitInputs ==
    /\ ss_orig \in {Scan(c) : c \in [ScanPairs -> RangeSetVals]}
    /\ ss_srcs \in SrcSelVals
    /\ ss_dets \in DetSelVals

SS_Idle ==
    /\ ss_orig = <<>>
    /\ ss_heap = <<>>
    /\ ss_srcs = <<>>
    /\ ss_dets = <<>>
    /\ ss_pc = "idle"
    /\ ss_ri = 0
    /\ ss_m = 0
    /\ ss_ret = <<>>

SS_Start ==
    /\ SS_InitInputs
    /\ ss_heap = HeapOf(ss_orig)
    /\ ss_pc = "start"
    /\ ss_ri = 0
    /\ ss_m = 0
    /\ ss_ret = <<>>

\* lines 51-52: the whole scan is asked for.  A comparison of arrays whose
\* shapes cannot be broadcast is False or raises, depending on the numpy.
SS_Enter ==
    /\ ss_pc = "start"
    /\ LET d == AllEqualARange(ss_dets, ScanDet)
           s == AllEqualARange(ss_srcs, MaxScanSrc)
       IN  \/ /\ d = "yes" /\ s = "yes"
              /\ ss_pc' = "done"
              /\ ss_ret' = SelfRefs
           \/ /\ d = "no" \/ (d = "yes" /\ s = "no") \/ d = "mismatch" \/ (d = "yes" /\ s = "mismatch")
              /\ ss_pc' = "slice"
              /\ UNCHANGED ss_ret
           \/ /\ d = "mismatch" \/ (d = "yes" /\ s = "mismatch")
              /\ ss_pc' = "raised"
              /\ UNCHANGED ss_ret
    /\ UNCHANGED <<ss_orig, ss_heap, ss_srcs, ss_dets, ss_ri, ss_m>>

\* step 1 (lines 54-64); np.concatenate of an empty list raises ValueError
SS_Slice ==
    /\ ss_pc = "slice"
    /\ LET npair == Len(ss_srcs) * Len(ss_dets)
           sl == SlicedUpTo(ss_heap["self.offsets"], ss_heap["self.rangesets"], ss_srcs, ss_dets, npair)
       IN  IF npair = 0
           THEN ss_pc' = "raised" /\ UNCHANGED ss_heap
           ELSE /\ ss_heap' = [ss_heap EXCEPT !["offsets"] = sl.off, !["rangesets"] = sl.rs]
                /\ ss_pc' = "remap"
    /\ UNCHANGED <<ss_orig, ss_srcs, ss_dets, ss_ri, ss_m, ss_ret>>

\* steps 2 and 3 (lines 65-74)
SS_Remap ==
    /\ ss_pc = "remap"
    /\ LET rsets == ss_heap["rangesets"]
           rmap == RMap(rsets)
           irmap == IRMap(rsets, Len(ss_heap["self.ranges"]))
       IN  ss_heap' = [o \in DOMAIN ss_heap |->
                          IF o = RangesObject THEN [k \in DOMAIN rmap |-> At(ss_heap["self.ranges"], rmap[k])]
                          ELSE IF o = "rangesets" THEN [k \in DOMAIN rsets |-> irmap[rsets[k]]]
                          ELSE ss_heap[o]]
    /\ ss_pc' = "alloc"
    /\ UNCHANGED <<ss_orig, ss_srcs, ss_dets, ss_ri, ss_m, ss_ret>>

\* lines 76-80
SS_Alloc ==
    /\ ss_pc = "alloc"
    /\ LET n == TotalLength(ss_heap[RangesObject])
       IN  ss_heap' = [ss_heap EXCEPT !["tod"] = Slice(ss_heap["self.tod"], 0, n),
                                      !["point"] = Slice(ss_heap["self.point"], 0, n),
                                      !["phase"] = Slice(ss_heap["self.phase"], 0, n)]
    /\ ss_m' = 0
    /\ ss_ri' = 0
    /\ ss_pc' = "copy"
    /\ UNCHANGED <<ss_orig, ss_srcs, ss_dets, ss_ret>>

\* one turn of the loop of lines 81-88
SS_Copy ==
    /\ ss_pc = "copy"
    /\ ss_ri < Len(ss_heap[RangesObject])
    /\ LET i1 == At(ss_heap[RangesObject], ss_ri)[1]
           i2 == At(ss_heap[RangesObject], ss_ri)[2]
           o1 == ss_m
           o2 == ss_m + i2 - i1
       IN  /\ ss_heap' = [o \in DOMAIN ss_heap |->
                             IF o = RangesObject
                             THEN [ss_heap[o] EXCEPT ![ss_ri + 1] = <<o1, o2>>]
                             ELSE IF o = "tod" THEN Assigned(ss_heap[o], o1, o2, ss_heap["self.tod"], i1)
                             ELSE IF o = "point" THEN Assigned(ss_heap[o], o1, o2, ss_heap["self.point"], i1)
                             ELSE IF o = "phase" THEN Assigned(ss_heap[o], o1, o2, ss_heap["self.phase"], i1)
                             ELSE ss_heap[o]]
           /\ ss_m' = o2
    /\ ss_ri' = ss_ri + 1
    /\ UNCHANGED <<ss_orig, ss_srcs, ss_dets, ss_pc, ss_ret>>

\* lines 89-92
SS_Return ==
    /\ ss_pc = "copy"
    /\ ss_ri = Len(ss_heap[RangesObject])
    /\ ss_ret' = NewRefs
    /\ ss_pc' = "done"
    /\ UNCHANGED <<ss_orig, ss_heap, ss_srcs, ss_dets, ss_ri, ss_m>>

SS_Next ==
    \/ SS_Enter /\ UNCHANGED <<gi_vars, md_vars, fa_vars, fit_vars, fs_vars, mm_vars, io_vars, bf_vars, fl_vars, lb_vars, pf_vars>>
    \/ SS_Slice /\ UNCHANGED <<gi_vars, md_vars, fa_vars, fit_vars, fs_vars, mm_vars, io_vars, bf_vars, fl_vars, lb_vars, pf_vars>>
    \/ SS_Remap /\ UNCHANGED <<gi_vars, md_vars, fa_vars, fit_vars, fs_vars, mm_vars, io_vars, bf_vars, fl_vars, lb_vars, pf_vars>>
    \/ SS_Alloc /\ UNCHANGED <<gi_vars, md_vars, fa_vars, fit_vars, fs_vars, mm_vars, io_vars, bf_vars, fl_vars, lb_vars, pf_vars>>
    \/ SS_Copy /\ UNCHANGED <<gi_vars, md_vars, fa_vars, fit_vars, fs_vars, mm_vars, io_vars, bf_vars, fl_vars, lb_vars, pf_vars>>
    \/ SS_Return /\ UNCHANGED <<gi_vars, md_vars, fa_vars, fit_vars, fs_vars, mm_vars, io_vars, bf_vars, fl_vars, lb_vars, pf_vars>>

(***************************************************************************)
(* The labelling of a block of find_srcs (dory.py 299-307)                 *)
(*                                                                         *)
(* snmap is a row of pixels in half-sigma units; the connected components  *)
(* ndimage.label finds on a row are its runs of adjacent set pixels,       *)
(* numbered from 1 in scan order.                                          *)
(***************************************************************************)
MaxLabelPix == 4

LbPix == 1 .. MaxLabelPix

LbSnVals == {-8, -7, -3, 0, 7}

\* the number of runs of mask that begin at or before pixel p
RunsUpTo(mask, p) == Cardinality({q \in 1 .. p : q \in mask /\ (q - 1) \notin mask})

\* ndimage.label(mask): the labels and the number of components
Label(mask) ==
    [labels |-> [p \in LbPix |-> IF p \in mask THEN RunsUpTo(mask, p) ELSE 0],
     nlabel |-> RunsUpTo(mask, MaxLabelPix)]

\* the combination without the shift of the negative labels
CombinedLabels_NoShift(lpos, lneg, mneg) == [p \in LbPix |-> lpos.labels[p] + lneg.labels[p]]

\* labels_pos + labels_neg + matches_neg*nlabel_pos (line 305)
CombinedLabels(lpos, lneg, mneg) ==
    [p \in LbPix |-> lpos.labels[p] + lneg.labels[p] + (IF p \in mneg THEN lpos.nlabel ELSE 0)]

LB_Idle ==
    /\ lb_snmap = <<>>
    /\ lb_pc = "idle"
    /\ lb_pos = <<>>
    /\ lb_neg = <<>>
    /\ lb_matches = {}
    /\ lb_labels = <<>>
    /\ lb_nlabel = 0

LB_Start ==
    /\ lb_snmap \in [LbPix -> LbSnVals]
    /\ lb_pc = "start"
    /\ lb_pos = <<>>
    /\ lb_neg = <<>>
    /\ lb_matches = {}
    /\ lb_labels = <<>>
    /\ lb_nlabel = 0

\* matches_pos and labels_pos, nlabel_pos (lines 299, 301)
LB_LabelPos ==
    /\ lb_pc = "start"
    /\ lb_pos' = [mask |-> {p \in LbPix : lb_snmap[p] >= FsSnMin}]
    /\ lb_pc' = "pos"
    /\ UNCHANGED <<lb_snmap, lb_neg, lb_matches, lb_labels, lb_nlabel>>

\* matches_neg and labels_neg, nlabel_neg (lines 300, 302)
LB_LabelNeg ==
    /\ lb_pc = "pos"
    /\ lb_neg' = [mask |-> {p \in LbPix : -lb_snmap[p] >= FsSnMin}]
    /\ lb_pc' = "neg"
    /\ UNCHANGED <<lb_snmap, lb_pos, lb_matches, lb_labels, lb_nlabel>>

\* matches, labels, nlabel (lines 304-306)
LB_Combine ==
    /\ lb_pc = "neg"
    /\ lb_matches' = lb_pos.mask \cup lb_neg.mask
    /\ lb_labels' = CombinedLabels(Label(lb_pos.mask), Label(lb_neg.mask), lb_neg.mask)
    /\ lb_nlabel' = Label(lb_pos.mask).nlabel + Label(lb_neg.mask).nlabel
    /\ lb_pc' = "done"
    /\ UNCHANGED <<lb_snmap, lb_pos, lb_neg>>

LB_Next ==
    \/ LB_LabelPos /\ UNCHANGED <<gi_vars, md_vars, fa_vars, fit_vars, fs_vars, mm_vars, io_vars, bf_vars, ss_vars, fl_vars, pf_vars>>
    \/ LB_LabelNeg /\ UNCHANGED <<gi_vars, md_vars, fa_vars, fit_vars, fs_vars, mm_vars, io_vars, bf_vars, ss_vars, fl_vars, pf_vars>>
    \/ LB_Combine /\ UNCHANGED <<gi_vars, md_vars, fa_vars, fit_vars, fs_vars, mm_vars, io_vars, bf_vars, ss_vars, fl_vars, pf_vars>>

(***************************************************************************)
(* fit_src_amps with a prior (dory.py 686-843)                             *)
(*                                                                         *)
(* The same function as above, called with prior = (prior_amp, prior_ivar),*)
(* two arrays with one value per source given.  The projections of the     *)
(* data that fill rhs and icov in a pass (lines 751-804) are arbitrary     *)
(* values: rhs one value for every source, icov one value on the diagonal, *)
(* one above and one below it.                                             *)
(***************************************************************************)
MaxPrior == 2

\* inside both margins, inside the first margin only, inside neither
PriorPixVals == {<<4, 4>>, <<3, 4>>, <<2, 4>>}

PriorAmpVals == {1, 3}

PriorIvarVals == {0, 2}

PriorRhsVals == {0, 5}

PriorDiagVals == {2}

PriorOffVals == {0, 2}

PriorRhs(n) == {[k \in 1 .. n |-> r] : r \in PriorRhsVals}

PriorMatrices(n) == {[k \in 1 .. n |-> [l \in 1 .. n |-> IF k = l THEN d ELSE IF k < l THEN u ELSE w]] :
                        d \in PriorDiagVals, u \in PriorOffVals, w \in PriorOffVals}

\* variant of Take: the array is indexed by the position in fit_inds
Take_ByPosition(arr, inds) == [k \in 1 .. Len(inds) |-> arr[k - 1]]

\* arr[fit_inds] (lines 808-809): a new array of the values at fit_inds
Take(arr, inds) == [k \in 1 .. Len(inds) |-> arr[inds[k]]]

\* np.diag(v) (line 809)
Diag(v) == [k \in DOMAIN v |-> [l \in DOMAIN v |-> IF k = l THEN v[k] ELSE 0]]

PF_InitInputs ==
    /\ \E n \in 0 .. MaxPrior :
          /\ pf_pix \in [0 .. (n - 1) -> PriorPixVals]
          /\ pf_prior \in [amp : [0 .. (n - 1) -> PriorAmpVals], ivar : [0 .. (n - 1) -> PriorIvarVals]]
    /\ pf_empty \in BOOLEAN
    /\ pf_npass \in 1 .. MaxPass

PF_Idle ==
    /\ pf_pix = <<>>
    /\ pf_prior = [amp |-> <<>>, ivar |-> <<>>]
    /\ pf_empty = FALSE
    /\ pf_npass = 0
    /\ pf_pc = "idle"
    /\ pf_inds = <<>>
    /\ pf_ipass = 0
    /\ pf_rhs0 = <<>>
    /\ pf_icov0 = <<>>
    /\ pf_rhs = <<>>
    /\ pf_icov = <<>>
    /\ pf_ret = "none"

PF_Start ==
    /\ PF_InitInputs
    /\ pf_pc = "start"
    /\ pf_inds = <<>>
    /\ pf_ipass = 0
    /\ pf_rhs0 = <<>>
    /\ pf_icov0 = <<>>
    /\ pf_rhs = <<>>
    /\ pf_icov = <<>>
    /\ pf_ret = "none"

\* lines 691-699: the margin test; with no survivor the function returns
PF_Filter ==
    /\ pf_pc = "start"
    /\ pf_inds' = Sorted({i \in DOMAIN pf_pix : InsideMargin(pf_pix[i], Apod + ApodMargin)})
    /\ IF Len(pf_inds') = 0
       THEN pf_pc' = "done" /\ pf_ret' = "nosrc"
       ELSE pf_pc' = "apod" /\ pf_ret' = pf_ret
    /\ UNCHANGED <<pf_pix, pf_prior, pf_empty, pf_npass, pf_ipass, pf_rhs0, pf_icov0, pf_rhs, pf_icov>>

\* lines 700-710: with no usable weighted area the function returns zeros
PF_Apod ==
    /\ pf_pc = "apod"
    /\ IF pf_empty
       THEN /\ pf_pc' = "done"
            /\ pf_ret' = "empty"
            /\ pf_icov' = Zeros2(Len(pf_inds))
       ELSE /\ pf_pc' = "pass"
            /\ UNCHANGED <<pf_ret, pf_icov>>
    /\ UNCHANGED <<pf_pix, pf_prior, pf_empty, pf_npass, pf_inds, pf_ipass, pf_rhs0, pf_icov0, pf_rhs>>

\* lines 743-804 of one pass: rhs and icov start from zeros and are filled
\* by the projections
PF_Project ==
    /\ pf_pc = "pass"
    /\ pf_ipass < pf_npass
    /\ pf_rhs0' \in PriorRhs(Len(pf_inds))
    /\ pf_icov0' \in PriorMatrices(Len(pf_inds))
    /\ pf_rhs' = pf_rhs0'
    /\ pf_icov' = pf_icov0'
    /\ pf_pc' = "prior"
    /\ UNCHANGED <<pf_pix, pf_prior, pf_empty, pf_npass, pf_inds, pf_ipass, pf_ret>>

\* lines 805-809: the prior is added to rhs and to the diagonal of icov
PF_Prior ==
    /\ pf_pc = "prior"
    /\ LET pamp == Take(pf_prior.amp, pf_inds)
           pivar == Take(pf_prior.ivar, pf_inds)
       IN  /\ pf_rhs' = [k \in DOMAIN pf_rhs |-> pf_rhs[k] + pivar[k] * pamp[k]]
           /\ pf_icov' = [k \in DOMAIN pf_icov |-> [l \in DOMAIN pf_icov |-> pf_icov[k][l] + Diag(pivar)[k][l]]]
    /\ pf_pc' = "sym"
    /\ UNCHANGED <<pf_pix, pf_prior, pf_empty, pf_npass, pf_inds, pf_ipass, pf_rhs0, pf_icov0, pf_ret>>

\* lines 815-834: icov is symmetrized and the system solved
PF_Solve ==
    /\ pf_pc = "sym"
    /\ pf_icov' = Symmetrize(pf_icov)
    /\ IF Singular(pf_icov')
       THEN pf_pc' = "raised" /\ pf_ipass' = pf_ipass
       ELSE pf_pc' = "pass" /\ pf_ipass' = pf_ipass + 1
    /\ UNCHANGED <<pf_pix, pf_prior, pf_empty, pf_npass, pf_inds, pf_rhs0, pf_icov0, pf_rhs, pf_ret>>

\* lines 835-843: the widened margin test and the final return
PF_Final ==
    /\ pf_pc = "pass"
    /\ pf_ipass = pf_npass
    /\ LET keep == Sorted({k \in 1 .. Len(pf_inds) :
                              InsideMargin(pf_pix[pf_inds[k]], Apod + ApodMargin + ApodMargin)})
       IN  /\ pf_inds' = Restrict1(pf_inds, keep)
           /\ pf_icov' = Restrict2(pf_icov, keep)
    /\ pf_pc' = "done"
    /\ pf_ret' = "final"
    /\ UNCHANGED <<pf_pix, pf_prior, pf_empty, pf_npass, pf_ipass, pf_rhs0, pf_icov0, pf_rhs>>

PF_Next ==
    \/ PF_Filter /\ UNCHANGED <<gi_vars, md_vars, fa_vars, fit_vars, fs_vars, mm_vars, io_vars, bf_vars, ss_vars, fl_vars, lb_vars>>
    \/ PF_Apod /\ UNCHANGED <<gi_vars, md_vars, fa_vars, fit_vars, fs_vars, mm_vars, io_vars, bf_vars, ss_vars, fl_vars, lb_vars>>
    \/ PF_Project /\ UNCHANGED <<gi_vars, md_vars, fa_vars, fit_vars, fs_vars, mm_vars, io_vars, bf_vars, ss_vars, fl_vars, lb_vars>>
    \/ PF_Prior /\ UNCHANGED <<gi_vars, md_vars, fa_vars, fit_vars, fs_vars, mm_vars, io_vars, bf_vars, ss_vars, fl_vars, lb_vars>>
    \/ PF_Solve /\ UNCHANGED <<gi_vars, md_vars, fa_vars, fit_vars, fs_vars, mm_vars, io_vars, bf_vars, ss_vars, fl_vars, lb_vars>>
    \/ PF_Final /\ UNCHANGED <<gi_vars, md_vars, fa_vars, fit_vars, fs_vars, mm_vars, io_vars, bf_vars, ss_vars, fl_vars, lb_vars>>

(***************************************************************************)
(* Specifications                                                          *)
(***************************************************************************)
InitGroup == GI_Start /\ MD_Idle /\ FA_Idle /\ FIT_Idle /\ FS_Idle /\ MM_Idle /\ IO_Idle /\ BF_Idle /\ SS_Idle /\ FL_Idle /\ LB_Idle /\ PF_Idle

SpecGroup == InitGroup /\ [][GI_Next]_vars

InitMerge == MD_Start /\ GI_Idle /\ FA_Idle /\ FIT_Idle /\ FS_Idle /\ MM_Idle /\ IO_Idle /\ BF_Idle /\ SS_Idle /\ FL_Idle /\ LB_Idle /\ PF_Idle

SpecMerge == InitMerge /\ [][MD_Next]_vars

InitArt == FA_Start /\ GI_Idle /\ MD_Idle /\ FIT_Idle /\ FS_Idle /\ MM_Idle /\ IO_Idle /\ BF_Idle /\ SS_Idle /\ FL_Idle /\ LB_Idle /\ PF_Idle

SpecArt == InitArt /\ [][FA_Next]_vars

InitFit == FIT_Start /\ GI_Idle /\ MD_Idle /\ FA_Idle /\ FS_Idle /\ MM_Idle /\ IO_Idle /\ BF_Idle /\ SS_Idle /\ FL_Idle /\ LB_Idle /\ PF_Idle

SpecFit == InitFit /\ [][FIT_Next]_vars

InitFind == FS_Start /\ GI_Idle /\ MD_Idle /\ FA_Idle /\ FIT_Idle /\ MM_Idle /\ IO_Idle /\ BF_Idle /\ SS_Idle /\ FL_Idle /\ LB_Idle /\ PF_Idle

SpecFind == InitFind /\ [][FS_Next]_vars

InitMaps == MM_Start /\ GI_Idle /\ MD_Idle /\ FA_Idle /\ FIT_Idle /\ FS_Idle /\ IO_Idle /\ BF_Idle /\ SS_Idle /\ FL_Idle /\ LB_Idle /\ PF_Idle

SpecMaps == InitMaps /\ [][MM_Next]_vars

\* every rank is a process of its own that runs whenever it can: as long as
\* some rank can take a step, a step is taken
SpecMapsFair == InitMaps /\ [][MM_Next]_vars /\ WF_vars(MM_Next)

InitCat == IO_Start /\ GI_Idle /\ MD_Idle /\ FA_Idle /\ FIT_Idle /\ FS_Idle /\ MM_Idle /\ BF_Idle /\ SS_Idle /\ FL_Idle /\ LB_Idle /\ PF_Idle

SpecCat == InitCat /\ [][IO_Next]_vars

InitFilter == BF_Start /\ GI_Idle /\ MD_Idle /\ FA_Idle /\ FIT_Idle /\ FS_Idle /\ MM_Idle /\ IO_Idle /\ SS_Idle /\ FL_Idle /\ LB_Idle /\ PF_Idle

SpecFilter == InitFilter /\ [][BF_Next]_vars

InitSelect == SS_Start /\ GI_Idle /\ MD_Idle /\ FA_Idle /\ FIT_Idle /\ FS_Idle /\ MM_Idle /\ IO_Idle /\ BF_Idle /\ FL_Idle /\ LB_Idle /\ PF_Idle

SpecSelect == InitSelect /\ [][SS_Next]_vars

InitLabel == FL_Start /\ GI_Idle /\ MD_Idle /\ FA_Idle /\ FIT_Idle /\ FS_Idle /\ MM_Idle /\ IO_Idle /\ BF_Idle /\ SS_Idle /\ LB_Idle /\ PF_Idle

SpecLabel == InitLabel /\ [][FL_Next]_vars

InitLabelling == LB_Start /\ GI_Idle /\ MD_Idle /\ FA_Idle /\ FIT_Idle /\ FS_Idle /\ MM_Idle /\ IO_Idle /\ BF_Idle /\ SS_Idle /\ FL_Idle /\ PF_Idle

SpecLabelling == InitLabelling /\ [][LB_Next]_vars

InitPrior == PF_Start /\ GI_Idle /\ MD_Idle /\ FA_Idle /\ FIT_Idle /\ FS_Idle /\ MM_Idle /\ IO_Idle /\ BF_Idle /\ SS_Idle /\ FL_Idle /\ LB_Idle

SpecPrior == InitPrior /\ [][PF_Next]_vars

(***************************************************************************)
(* Claims about group_independent                                          *)
(***************************************************************************)
GroupSet(g) == Range(indep_groups[g])

\* C1: any two distinct sources that group_independent returns in the same
\* independent group are farther apart than corrlen: neither is in the
\* other's correlated-neighbour set.
C1_SameGroupIndependent ==
    gi_pc = "done" =>
        \A g \in DOMAIN indep_groups : \A i, j \in GroupSet(g) :
            i # j => (j \notin corr_groups[i] /\ i \notin corr_groups[j])

\* C2: the correlated-neighbour relation group_independent returns is
\* symmetric: j is in corr_groups[i] exactly when i is in corr_groups[j].
C2_CorrSymmetric ==
    gi_pc = "done" =>
        \A i, j \in DOMAIN pos : (j \in corr_groups[i]) <=> (i \in corr_groups[j])

\* C3: the returned indep_groups partition {0..n-1}: every source index is
\* in exactly one group and no group is empty.
C3_Partition ==
    gi_pc = "done" =>
        /\ \A i \in DOMAIN pos :
              Cardinality({g \in DOMAIN indep_groups : i \in GroupSet(g)}) = 1
        /\ \A g \in DOMAIN indep_groups :
              /\ indep_groups[g] # <<>>
              /\ GroupSet(g) \subseteq DOMAIN pos
              /\ Len(indep_groups[g]) = Cardinality(GroupSet(g))

\* C3 witness: three sources returned as two groups, one of them a pair
C3_Witness ==
    /\ gi_pc = "done"
    /\ NSrc = 3
    /\ Len(indep_groups) = 2
    /\ \E g \in DOMAIN indep_groups : Len(indep_groups[g]) = 2

(***************************************************************************)
(* Claims about merge_duplicates                                           *)
(***************************************************************************)
\* an output entry whose position is on the grid, so that its tree point
\* (ra*cos(dec), dec) is exact
OnGrid(o) == /\ o.dec[1] % o.dec[2] = 0
             /\ o.ra[1] % o.ra[2] = 0
             /\ (o.dec[1] \div o.dec[2]) \in DecVals

OutPoint(o) == Scaled(o.dec[1] \div o.dec[2], o.ra[1] \div o.ra[2])

\* C4: the catalog merge_duplicates returns contains no duplicates: no two
\* of its entries are within rlim of each other.  (Stated for the output
\* entries whose position is on the grid, which the claim implies.)
C4_NoDuplicatesLeft ==
    md_pc = "done" =>
        \A a, b \in DOMAIN ocat :
            (a # b /\ OnGrid(ocat[a]) /\ OnGrid(ocat[b]))
                => Dist2(OutPoint(ocat[a]), OutPoint(ocat[b])) > rlim * rlim

\* the input catalog holds no two entries within rlim of each other
DuplicateFree == \A i, j \in DOMAIN cat : i # j => j \notin MergeGroups(i)

FracEq(a, b) == a[1] * b[2] = b[1] * a[2]

SameFields(o, e) == /\ FracEq(o.ra, <<e.ra, 1>>)
                    /\ FracEq(o.dec, <<e.dec, 1>>)
                    /\ FracEq(o.amp, <<e.amp, 1>>)
                    /\ FracEq(o.damp, <<e.damp, 1>>)

\* C5 as stated: for a duplicate-free input, merge_duplicates returns the
\* same entries with the same field values, order aside.
C5_UnchangedAsStated ==
    (md_pc = "done" /\ DuplicateFree) =>
        \E f \in [1 .. Len(ocat) -> DOMAIN cat] :
            /\ \A i \in DOMAIN cat : \E k \in 1 .. Len(ocat) : f[k] = i
            /\ Len(ocat) = NCat
            /\ \A k \in 1 .. Len(ocat) : SameFields(ocat[k], cat[f[k]])

\* C5 amended: for a duplicate-free input, merge_duplicates returns the
\* same number of entries, in the same order, each with the fields of the
\* input entry except that ra is rewound into [-pi, pi).
C5_UnchangedUpToRewind ==
    (md_pc = "done" /\ DuplicateFree) =>
        /\ Len(ocat) = NCat
        /\ \A k \in 1 .. Len(ocat) :
              /\ FracEq(ocat[k].ra, <<Rewind(cat[k - 1].ra), 1>>)
              /\ FracEq(ocat[k].dec, <<cat[k - 1].dec, 1>>)
              /\ FracEq(ocat[k].amp, <<cat[k - 1].amp, 1>>)
              /\ FracEq(ocat[k].damp, <<cat[k - 1].damp, 1>>)

\* C5 witness: a duplicate-free catalog of two entries, one with ra beyond
\* pi, has been merged
C5_Witness ==
    /\ md_pc = "done"
    /\ DuplicateFree
    /\ NCat = 2
    /\ \E i \in DOMAIN cat : cat[i].ra # Rewind(cat[i].ra)
    /\ Len(ocat) = 2

(***************************************************************************)
(* Claims about find_source_artifacts and prune_artifacts                  *)
(***************************************************************************)
\* the entries a chain of jumps shorter than jumprad reaches from T through C
RECURSIVE ChainClosure(_, _)
ChainClosure(T, C) == LET m == Matches(C \ T, T)
                      IN  IF m = {} THEN T ELSE ChainClosure(T \cup m, C)

\* the scenario of C6: exactly one strong source s; every other entry is
\* below vlim times its S/N, within maxrad of it, and reachable from it by
\* jumps shorter than jumprad through the other entries
C6_Scenario(s) ==
    /\ Strong = {s}
    /\ DOMAIN rcat # {s}
    /\ \A j \in DOMAIN rcat \ {s} :
          /\ VlimDen * rcat[j].sn < rcat[s].sn
          /\ TreeDist(s, j) <= MaxRad
          /\ AngDist(s, j) <= MaxRad
    /\ ChainClosure({s}, DOMAIN rcat \ {s}) = DOMAIN rcat

\* C6: in that scenario find_source_artifacts returns s as the only owner
\* with exactly the other entries as its artifacts, and prune_artifacts
\* removes them all and keeps s.
C6_ScenarioPruned ==
    \A s \in DOMAIN rcat :
        (C6_Scenario(s) /\ pr_pc \in {"done", "raised"}) =>
            /\ pr_pc = "done"
            /\ owners = <<s>>
            /\ artifacts = <<DOMAIN rcat \ {s}>>
            /\ pr_cat = <<s>>

(***************************************************************************)
(* Claims about fit_src_amps                                               *)
(***************************************************************************)
\* a position within the margin (apod + apod_margin) of the map edge or of a
\* zero-weight pixel
C7_Contaminated(pix) ==
    \/ ~InsideMargin(pix, Apod + ApodMargin)
    \/ \E z \in idiv_zero :
          (pix[1] - z[1]) * (pix[1] - z[1]) + (pix[2] - z[2]) * (pix[2] - z[2])
              < (Apod + ApodMargin) * (Apod + ApodMargin)

\* C7: no index in the returned fit_inds refers to a position within the
\* margin of the map edge or of the apodization boundary (zero-weight holes
\* included), and every returned index is an index of the input list.
C7_NoContaminatedFit ==
    fit_pc = "done" =>
        \A k \in 1 .. Len(fit_inds) :
            /\ fit_inds[k] \in DOMAIN src_pix
            /\ ~C7_Contaminated(src_pix[fit_inds[k]])

WidenedOk(inds) ==
    \A k \in 1 .. Len(inds) : InsideMargin(src_pix[inds[k]], Apod + 2 * ApodMargin)

\* C8 as stated: on every return path each returned index passes the widened
\* margin test apod + 2*apod_margin <= p < shape - (apod + 2*apod_margin).
C8_WidenedOnEveryReturn == fit_pc = "done" => WidenedOk(fit_inds)

\* C8 amended: the sources of the final return (line 843) are exactly the
\* inputs that pass the widened test; the early return of line 710 returns
\* the inputs that pass the first test (apod + apod_margin), and the early
\* return of line 699 returns none.
C8_WidenedOnFinalReturn ==
    fit_pc = "done" =>
        /\ fit_ret = "final" => WidenedOk(fit_inds) /\ fit_inds = FitInds(Apod + 2 * ApodMargin)
        /\ fit_ret = "empty" => fit_inds = FitInds(Apod + ApodMargin) /\ fit_inds # <<>>
        /\ fit_ret = "nosrc" => fit_inds = <<>>

\* the final return has dropped a source that passed the first test and kept another
C8_Witness ==
    /\ fit_pc = "done"
    /\ fit_ret = "final"
    /\ fit_inds # <<>>
    /\ FitInds(Apod + ApodMargin) # fit_inds

AllZero1(v) == \A k \in DOMAIN v : v[k] = 0

AllZero2(m) == \A k \in DOMAIN m : \A l \in DOMAIN m[k] : m[k][l] = 0

\* C9: with an empty usable weighted area fit_src_amps returns without
\* raising, builds no noise model and solves nothing; amp, icov and
\* local_amps are all zero with lengths n, n x n and n, n = len(fit_inds).
C9_EmptyAreaZeros ==
    UsableAreaEmpty =>
        /\ fit_pc \in {"idle", "start", "apod", "done"}
        /\ nmodels = 0
        /\ nsolves = 0
        /\ fit_pc = "done" =>
              /\ Len(amp) = Len(fit_inds) /\ AllZero1(amp)
              /\ Len(icov) = Len(fit_inds)
              /\ \A k \in DOMAIN icov : Len(icov[k]) = Len(fit_inds)
              /\ AllZero2(icov)
              /\ Len(local_amps) = Len(fit_inds) /\ AllZero1(local_amps)

\* the early return of line 710 with a surviving and a discarded input
C9_Witness ==
    /\ UsableAreaEmpty
    /\ fit_pc = "done"
    /\ fit_ret = "empty"
    /\ Len(fit_inds) >= 1
    /\ Len(fit_inds) < Cardinality(DOMAIN src_pix)

IsSymmetric(m) == \A i \in DOMAIN m : \A j \in DOMAIN m : m[i][j] = m[j][i]

\* C10: the matrix passed to the solver in every pass is symmetric with the
\* diagonal it had before the symmetrization, and the icov returned is
\* symmetric.
C10_SolverSymmetric ==
    /\ fit_pc = "solve" =>
          /\ IsSymmetric(icov)
          /\ \A i \in DOMAIN icov : icov[i][i] = icov_pre[i][i]
    /\ fit_pc = "done" => IsSymmetric(icov)

\* a final return of two sources whose last pass built an asymmetric icov
C10_Witness ==
    /\ fit_pc = "done"
    /\ fit_ret = "final"
    /\ Len(icov) = 2
    /\ Len(icov_pre) = 2
    /\ icov_pre[1][2] # icov_pre[2][1]

(***************************************************************************)
(* Claims about find_srcs                                                  *)
(***************************************************************************)
\* the two tests of line 357 applied to one and the same entry
OwnTests(e) == e.fin /\ \E p \in Nearest(e.pix) : DistFromApod(p) >= fs_apod_margin

\* C11: no entry of the returned catalogue has a non-finite rms or lies
\* closer than apod_margin to the apodized region, and the entries kept are
\* exactly the entries of the ordered catalogue that pass both tests
\* themselves.
C11_UntaintedAligned ==
    fs_pc = "done" =>
        /\ \A k \in DOMAIN fs_cat : OwnTests(fs_cat[k])
        /\ fs_cat = MaskSeq(fs_sorted, [k \in DOMAIN fs_sorted |-> OwnTests(fs_sorted[k])])

(***************************************************************************)
(* Claims about merge_maps_onto                                            *)
(***************************************************************************)
\* the maps of all ranks, as <<rank, index>>, and those covering pixel p
AllMaps == {rk \in (0 .. (mm_size - 1)) \X (1 .. MaxMaps) : rk[2] <= Len(maplist[rk[1]])}

Covering(p) ==
    {rk \in AllMaps : LET m == maplist[rk[1]][rk[2]]
                      IN  p >= m.lo /\ p < m.lo + Len(m.vals)}

\* sum over the maps S of weight at p (weighted = FALSE) or value*weight at p
RECURSIVE SumAt(_, _, _)
SumAt(S, p, weighted) ==
    IF S = {} THEN 0
    ELSE LET rk == CHOOSE x \in S : TRUE
             m  == maplist[rk[1]][rk[2]]
             w  == MergeWeight(Len(m.vals), p - m.lo)
         IN  (IF weighted THEN m.vals[p - m.lo + 1] * w ELSE w) + SumAt(S \ {rk}, p, weighted)

\* C12: the map the root returns is sum(value*weight)/sum(weight) over the
\* maps of all ranks covering a pixel, whatever the order of accumulation,
\* and exactly 0 at a pixel no map covers.
C12_WeightedMean ==
    (mm_size > 0 /\ mm_out[mm_root] = "omap") =>
        \A p \in MmPix :
            IF Covering(p) = {}
            THEN omap[p] = <<0, 1>>
            ELSE /\ omap[p][2] > 0
                 /\ omap[p][1] * SumAt(Covering(p), p, FALSE) = SumAt(Covering(p), p, TRUE) * omap[p][2]

\* the root has returned a map with a pixel covered by maps of two ranks and
\* a pixel covered by none
C12_Witness ==
    /\ mm_size > 1
    /\ mm_out[mm_root] = "omap"
    /\ \E p \in MmPix : Covering(p) = {}
    /\ \E p \in MmPix : \E a, b \in Covering(p) : a[1] # b[1]

(***************************************************************************)
(* Claims about prune_artifacts                                            *)
(***************************************************************************)
\* C13: the result prune_artifacts returns has the input catalogue without
\* the entries listed as artifacts, in the original order, the model of the
\* remaining entries and resid = map - model; snmap and resid_snmap are
\* unchanged, the object passed in is not modified, and without artifacts
\* every field is unchanged.
C13_PruneFrame ==
    pr_pc = "done" =>
        /\ pr_arg = InputResult
        /\ pr_res.cat = Sorted(DOMAIN rcat \ UNION Range(artifacts))
        /\ pr_res.model = pr_res.cat
        /\ pr_res.resid = pr_res.model
        /\ pr_res.snmap = InputResult.snmap
        /\ pr_res.resid_snmap = InputResult.resid_snmap
        /\ pr_res.map = InputResult.map
        /\ pr_res.beam_thumb = InputResult.beam_thumb
        /\ artifacts = <<>> => pr_res = InputResult

\* a return that removed an artifact and kept a later entry
C13_Witness ==
    /\ pr_pc = "done"
    /\ artifacts # <<>>
    /\ \E a \in UNION Range(artifacts) : \E k \in Range(pr_res.cat) : a < k

(***************************************************************************)
(* Claims about write_catalog and read_catalog                             *)
(***************************************************************************)
\* the fields of the entry read back have the values of the original
SameEntry(b, e) ==
    /\ FracEq(b.ra, <<e.ra, 1>>)
    /\ FracEq(b.dec, <<e.dec, 1>>)
    /\ \A c \in 1 .. 3 :
          /\ FracEq(b.amp[c], <<e.amp[c], 1>>)
          /\ FracEq(b.damp[c], <<e.damp[c], 1>>)
          /\ FracEq(b.flux[c], <<e.flux[c], 1>>)
          /\ FracEq(b.dflux[c], <<e.dflux[c], 1>>)
    /\ FracEq(b.npix, <<e.npix, 1>>)
    /\ FracEq(b.status, <<e.status, 1>>)

\* |b - v| <= num/den for a fraction b and a whole number v
Within(b, v, num, den) == Abs(b[1] - v * b[2]) * den <= num * b[2]

\* what the binary format restores: the same entries with the same field
\* values
FitsRoundTrip ==
    (io_pc = "read" /\ IsFits(io_name)) =>
        /\ Len(io_back) = Len(io_cat)
        /\ \A k \in DOMAIN io_cat : SameEntry(io_back[k], io_cat[k])

\* what the text format restores: every field to within half a printed
\* step of the file (5e-5 deg, 5e-5 mK, 5e-5 mJy), npix and status exactly
TxtRoundTrip ==
    (io_pc = "read" /\ ~IsFits(io_name)) =>
        /\ Len(io_back) = Len(io_cat)
        /\ \A k \in DOMAIN io_cat :
              /\ Within(io_back[k].ra, io_cat[k].ra, Degree, 2 * FmtQuant)
              /\ Within(io_back[k].dec, io_cat[k].dec, Degree, 2 * FmtQuant)
              /\ \A c \in 1 .. 3 :
                    /\ Within(io_back[k].amp[c], io_cat[k].amp[c], Kilo, 2 * FmtQuant)
                    /\ Within(io_back[k].damp[c], io_cat[k].damp[c], Kilo, 2 * FmtQuant)
                    /\ Within(io_back[k].flux[c], io_cat[k].flux[c], 1, 2 * FmtQuant * Kilo)
                    /\ Within(io_back[k].dflux[c], io_cat[k].dflux[c], 1, 2 * FmtQuant * Kilo)
              /\ FracEq(io_back[k].npix, <<io_cat[k].npix, 1>>)
              /\ FracEq(io_back[k].status, <<io_cat[k].status, 1>>)

\* C14: for every catalogue and file name read_catalog returns, from the
\* file write_catalog wrote under the same name, the same entries in the
\* same order with every field equal to the original up to the precision
\* of the format.
C14_RoundTrip ==
    /\ io_pc # "raised"
    /\ FitsRoundTrip
    /\ TxtRoundTrip

(***************************************************************************)
(* Claims about build_filter                                               *)
(***************************************************************************)
\* C15: the filter build_filter returns is normalised so that the unit-peak
\* beam template convolved with it has the value 1 at pixel [0,0].
C15_UnitResponse ==
    bf_pc = "done" => ResponseAt0(bf_m, bf_filter) = <<1, 1>>

\* a returned filter whose response before the division was not 1
C15_Witness ==
    /\ bf_pc = "done"
    /\ bf_norm # <<1, 1>>
    /\ bf_m[<<0, 0>>] = <<1, 1>>
    /\ \E n \in BfPix : bf_m[n] # <<1, 1>> /\ bf_m[n] # <<0, 1>>

(***************************************************************************)
(* Claims about SrcScan.select                                             *)
(***************************************************************************)
\* the samples of array f a pair reaches through offsets, rangesets, ranges
RECURSIVE SamplesOf(_, _, _)
SamplesOf(arr, ranges, rs) ==
    IF rs = <<>> THEN <<>>
    ELSE Slice(arr, At(ranges, Head(rs))[1], At(ranges, Head(rs))[2]) \o SamplesOf(arr, ranges, Tail(rs))

PairSamples(heap, refs, f, s, d) ==
    LET o == heap[refs.offsets][<<s, d>>]
    IN  SamplesOf(heap[refs[f]], heap[refs.ranges], Slice(heap[refs.rangesets], o[1], o[2]))

OrigPairSamples(f, s, d) ==
    LET o == ss_orig.offsets[<<s, d>>]
    IN  SamplesOf(ss_orig[f], ss_orig.ranges, Slice(ss_orig.rangesets, o[1], o[2]))

\* C16: in the scan select returns every selected (source, detector) pair
\* reaches, through offsets, rangesets and ranges, the same sequence of tod,
\* point and phase samples as in the original scan, and the arrays of the
\* original scan are not modified.
C16_SelectKeepsSamples ==
    /\ \A f \in {"tod", "point", "phase", "ranges", "rangesets", "offsets"} :
          ss_pc # "idle" => ss_heap[SelfRefs[f]] = ss_orig[f]
    /\ ss_pc = "done" =>
          \A si \in 0 .. Len(ss_srcs) - 1, di \in 0 .. Len(ss_dets) - 1, f \in {"tod", "point", "phase"} :
              PairSamples(ss_heap, ss_ret, f, si, di) = OrigPairSamples(f, At(ss_srcs, si), At(ss_dets, di))

\* a new scan for reordered sources in which a range was dropped, the kept
\* ranges moved and a pair reaches samples of two ranges
C16_Witness ==
    /\ ss_pc = "done"
    /\ ss_ret = NewRefs
    /\ ss_srcs = <<1, 0>>
    /\ Len(ss_heap["ranges"]) < Len(ss_orig.ranges)
    /\ ss_heap["ranges"] # [k \in DOMAIN ss_heap["ranges"] |-> ss_orig.ranges[k]]
    /\ \E di \in 0 .. Len(ss_dets) - 1 : Len(PairSamples(ss_heap, ss_ret, "tod", 0, di)) > 2

(***************************************************************************)
(* Claims about the order of the catalogue find_srcs returns               *)
(***************************************************************************)
\* sub is what is left of sq after some of its entries are removed
RECURSIVE IsSubsequence(_, _)
IsSubsequence(sub, sq) ==
    IF sub = <<>> THEN TRUE
    ELSE IF sq = <<>> THEN FALSE
    ELSE IF Head(sub) = Head(sq) THEN IsSubsequence(Tail(sub), Tail(sq))
    ELSE IsSubsequence(sub, Tail(sq))

\* a comparison with NaN is false
SnNotIncreasing(a, b) == a.fin /\ b.fin /\ FracLeq(SnOf(b), SnOf(a))

\* C17: the catalogue find_srcs returns is in order of S/N amp[0]/damp[0],
\* highest first (non-increasing from each entry to the next), and is the
\* ordered catalogue with the rejected entries left out.
C17_ReturnedOrdered ==
    fs_pc = "done" =>
        /\ IsSubsequence(fs_cat, fs_sorted)
        /\ \A k \in 1 .. Len(fs_cat) - 1 : SnNotIncreasing(fs_cat[k], fs_cat[k + 1])

(***************************************************************************)
(* Claims about the block loop of find_srcs                                *)
(***************************************************************************)
\* the fits recorded by block b
FitsOfBlock(b) == {k \in DOMAIN fits : fits[k].block = b}

\* C18: the block loop runs at most nblock blocks; once a block's cutoff has
\* reached snmin, or a block has detected nothing, no further block runs;
\* the sources of the block whose cutoff first reaches snmin are recorded
\* before the loop is left.
C18_BlockLoopStops ==
    /\ iblock <= nblock
    /\ Len(fs_cuts) <= nblock
    /\ \A k \in DOMAIN fits : fits[k].block < nblock
    /\ \A b \in 1 .. Len(fs_cuts) - 1 : ~FracLeq(fs_cuts[b], <<FsSnMin, 1>>)
    /\ fs_stop # "none" => fs_pc \in {"catalog", "reject", "done"}
    /\ (fs_pc = "block" /\ fs_cuts # <<>>) => ~FracLeq(fs_cuts[Len(fs_cuts)], <<FsSnMin, 1>>)
    /\ fs_stop = "floor" =>
          /\ FracLeq(fs_cuts[Len(fs_cuts)], <<FsSnMin, 1>>)
          /\ FitsOfBlock(Len(fs_cuts) - 1) # {}
          /\ \A k \in FitsOfBlock(Len(fs_cuts) - 1) :
                \E p \in Nearest(fits[k].pix) : fmap[p] \in FsResidVals
    /\ fs_stop = "nolabel" => Components(fmap) = <<>>

\* the loop was left in its second block because the cutoff reached snmin,
\* with blocks to spare, and the sources of that block are in fits
C18_Witness ==
    /\ fs_stop = "floor"
    /\ Len(fs_cuts) = 2
    /\ nblock > 2
    /\ FitsOfBlock(1) # {}
    /\ FitsOfBlock(0) # {}

(***************************************************************************)
(* Claims about the cutoff of the block loop of find_srcs                  *)
(***************************************************************************)
\* a cutoff divided by d, not below snmin
LoweredBy(c, num, den) == FracMax(<<FsSnMin, 1>>, <<c[1] * den, c[2] * num>>)

\* C19 as stated: the cutoff that selects the components of the first block
\* is the peak |S/N| of the pass, the cutoff of every following block is
\* half the one before, and no cutoff is below snmin.
C19_StartsAtPeakHalved ==
    /\ fs_cuts # <<>> => FracEq(fs_cuts[1], fs_peak)
    /\ \A k \in 2 .. Len(fs_cuts) : FracEq(fs_cuts[k], LoweredBy(fs_cuts[k - 1], 2, 1))
    /\ \A k \in DOMAIN fs_cuts : FracLeq(<<FsSnMin, 1>>, fs_cuts[k])

\* C19 amended: the cutoff that selects the components of the first block is
\* the peak |S/N| of the pass divided by snblock, the cutoff of every
\* following block is at most the one before divided by snblock, and every
\* cutoff is bounded below by snmin (a quotient below snmin is replaced by it).
C19_DividedBySnblock ==
    /\ fs_cuts # <<>> => FracEq(fs_cuts[1], LoweredBy(fs_peak, SnBlockNum, SnBlockDen))
    /\ \A k \in 2 .. Len(fs_cuts) : FracLeq(fs_cuts[k], LoweredBy(fs_cuts[k - 1], SnBlockNum, SnBlockDen))
    /\ \A k \in DOMAIN fs_cuts : FracLeq(<<FsSnMin, 1>>, fs_cuts[k])

\* three blocks: the first cutoff is the peak over snblock and above snmin,
\* the second is lower than the first over snblock, the third is snmin
C19_Witness ==
    /\ Len(fs_cuts) = 3
    /\ FracEq(fs_cuts[1], <<fs_peak[1] * SnBlockDen, fs_peak[2] * SnBlockNum>>)
    /\ ~FracLeq(fs_cuts[1], <<FsSnMin, 1>>)
    /\ ~FracLeq(LoweredBy(fs_cuts[1], SnBlockNum, SnBlockDen), fs_cuts[2])
    /\ FracEq(fs_cuts[3], <<FsSnMin, 1>>)

(***************************************************************************)
(* Claims about fit_labeled_srcs                                           *)
(***************************************************************************)
\* C20: a component classified as extended is returned with the position
\* and amplitude of its extremum, the maximum if it is positive and the
\* minimum if it is negative; any other component is returned with its
\* centre-of-mass position and amplitude.
C20_ExtendedUsesExtremum ==
    fl_pc = "done" =>
        fl_ret = IF Extended(fl_ext, fl_com)
                 THEN (IF fl_com.amp[1] < 0 THEN fl_min ELSE fl_max)
                 ELSE fl_com

(***************************************************************************)
(* Claims about the labelling of find_srcs                                 *)
(***************************************************************************)
\* pixels p <= q lie in one connected excursion of one sign
SameExcursion(p, q) ==
    \/ \A x \in p .. q : lb_snmap[x] >= FsSnMin
    \/ \A x \in p .. q : -lb_snmap[x] >= FsSnMin

\* C21: the combined labelling labels a pixel non-zero exactly when
\* |snmap| >= snmin, uses every label of 1..nlabel, gives two pixels the
\* same label exactly when they lie in one connected excursion of one sign,
\* and so never joins a pixel with snmap >= snmin and one with
\* snmap <= -snmin, adjacent or not.
C21_LabelsSeparate ==
    lb_pc = "done" =>
        /\ \A p \in LbPix : lb_labels[p] # 0 <=> Abs(lb_snmap[p]) >= FsSnMin
        /\ \A p \in LbPix : lb_labels[p] # 0 <=> p \in lb_matches
        /\ \A p \in LbPix : lb_labels[p] \in 0 .. lb_nlabel
        /\ \A n \in 1 .. lb_nlabel : \E p \in LbPix : lb_labels[p] = n
        /\ \A p, q \in LbPix :
              (p <= q /\ lb_labels[p] # 0 /\ lb_labels[q] # 0) =>
                  (lb_labels[p] = lb_labels[q] <=> SameExcursion(p, q))
        /\ \A p, q \in LbPix :
              (lb_snmap[p] >= FsSnMin /\ lb_snmap[q] <= -FsSnMin) => lb_labels[p] # lb_labels[q]

\* a positive and a negative excursion next to each other, and a second
\* positive excursion
C21_Witness ==
    /\ lb_pc = "done"
    /\ lb_nlabel >= 3
    /\ \E p \in 1 .. MaxLabelPix - 1 : lb_snmap[p] >= FsSnMin /\ lb_snmap[p + 1] <= -FsSnMin
    /\ \E p \in LbPix : lb_labels[p] = 0

(***************************************************************************)
(* Claims about the chain loop of find_source_artifacts                    *)
(***************************************************************************)
\* the chain loop is or was run for the current strong source (line 989)
ChainRan == fa_cands # {} /\ Cardinality(fa_cands) < gmax

\* what n rounds of jumps shorter than jumprad reach from the entries tg
RECURSIVE Reached(_, _, _)
Reached(tg, cands, n) ==
    IF n = 0 THEN tg ELSE Reached(tg \cup Matches(cands \ tg, tg), cands, n - 1)

\* C22: for every strong source the chain loop makes at most maxit
\* iterations, every iteration that does not stop tags at least one entry
\* that was not tagged, when the loop stops before maxit no faint candidate
\* that is left is within jumprad of a tagged entry, and every chain artifact
\* is a faint candidate reached from the owner and its core artifacts by
\* jumps shorter than jumprad over tagged entries.
C22_ChainLoop ==
    (fa_pc \in {"chain", "finish", "raised"} /\ fa_si \in DOMAIN rcat) =>
        LET start == {fa_si} \cup CoreSet(fa_si)
        IN  /\ fa_it <= maxit
            /\ start \subseteq tagged
            /\ Cardinality(tagged) >= Cardinality(start) + fa_it
            /\ tagged = Reached(start, fa_cands, fa_it)
            /\ (tagged \ start) \subseteq fa_cands
            /\ \A a \in tagged \ start :
                  \E n \in 1 .. fa_it : /\ a \in Reached(start, fa_cands, n)
                                        /\ a \notin Reached(start, fa_cands, n - 1)
                                        /\ \E t \in Reached(start, fa_cands, n - 1) : AngDist(a, t) < JumpRad
            /\ (fa_pc \in {"finish", "raised"} /\ ChainRan /\ fa_it < maxit) =>
                  Matches(fa_cands \ tagged, tagged) = {}
            /\ (fa_pc = "finish" /\ ~ChainRan) => fa_it = 0

\* the loop stopped after a productive iteration with a candidate left over
\* that no tagged entry reaches
C22_Witness ==
    /\ fa_pc = "finish"
    /\ ChainRan
    /\ fa_it = 1
    /\ fa_it < maxit
    /\ fa_cands \ tagged # {}
    /\ tagged \ ({fa_si} \cup CoreSet(fa_si)) # {}

(***************************************************************************)
(* Claims about the owners and artifact lists of find_source_artifacts     *)
(***************************************************************************)
\* C23: a strong source that was tagged as an artifact of a stronger source
\* is skipped: no index of owners is in any artifact list, and so no
\* artifact list holds its own owner.
C23_OwnersNotArtifacts ==
    /\ \A i, j \in DOMAIN owners : owners[i] \notin artifacts[j]
    /\ \A i \in DOMAIN owners : owners[i] \notin fa_done
    /\ (fa_pc \in {"chain", "finish"}) => fa_si \notin fa_done

\* a strong source was tagged by a stronger one, was skipped, and the
\* function returned
C23_Witness ==
    /\ fa_pc = "done"
    /\ Len(owners) >= 1
    /\ \E s \in Strong : s \in fa_done /\ s \notin Range(owners)

\* C29 as stated: the artifact lists are pairwise disjoint.
C29_ListsDisjoint ==
    \A i, j \in DOMAIN artifacts : i # j => artifacts[i] \cap artifacts[j] = {}

\* entry a is weak enough to be a core artifact or a chain candidate of s
WeakFor(a, s) == CoreLimDen * rcat[a].sn < rcat[s].sn \/ VlimDen * rcat[a].sn < rcat[s].sn

\* C29 amended: the owners are pairwise different and no owner is in an
\* artifact list, but the lists of two owners can share entries; an entry
\* in the lists of two owners is never an owner itself, is weaker than both
\* by the factor core_lim or vlim, and prune_artifacts removes it once.
C29_SharedOnlyWeak ==
    /\ \A i, j \in DOMAIN owners : i # j => owners[i] # owners[j]
    /\ \A i, j \in DOMAIN artifacts :
          i # j => \A a \in artifacts[i] \cap artifacts[j] :
                      /\ a \notin Range(owners)
                      /\ WeakFor(a, owners[i])
                      /\ WeakFor(a, owners[j])
    /\ \A i \in DOMAIN artifacts : artifacts[i] # {} /\ owners[i] \notin artifacts[i]
    /\ (pr_pc = "done" /\ Len(artifacts) > 0) =>
          /\ Range(pr_res.cat) = DOMAIN rcat \ UNION Range(artifacts)
          /\ \A m, n \in DOMAIN pr_res.cat : m # n => pr_res.cat[m] # pr_res.cat[n]

\* two owners whose lists share an entry, after prune_artifacts
C29_Witness ==
    /\ pr_pc = "done"
    /\ \E i, j \in DOMAIN artifacts : i # j /\ artifacts[i] \cap artifacts[j] # {}

(***************************************************************************)
(* Claims about the merged entries of merge_duplicates                     *)
(***************************************************************************)
\* the loop of merge_duplicates is about to handle a group with two or more
\* members that are not yet consumed
MergeStep == /\ md_pc = "loop"
             /\ md_gi < NCat
             /\ Cardinality(Pending(md_gi)) >= 2

\* the members of G whose |amp[0]| is at least (1 - alim) times the |amp[0]|
\* of every member of G
InTolerance(G) == {i \in G : \A j \in G :
                      AlimDen * Abs(CatCopy[i].amp) >= (AlimDen - AlimNum) * Abs(CatCopy[j].amp)}

\* entry o holds the damp[0]^-2 weighted averages of the members G
IsWeightedMean(o, G) ==
    /\ FracEq(o.ra, WMean(G, [i \in G |-> CatCopy[i].ra]))
    /\ FracEq(o.dec, WMean(G, [i \in G |-> CatCopy[i].dec]))
    /\ FracEq(o.amp, WMean(G, [i \in G |-> CatCopy[i].amp]))

\* one entry, the weighted average of the members of the group within the
\* tolerance, is appended and every member of the group is consumed
MergedOnce == /\ Len(ocat') = Len(ocat) + 1
              /\ SubSeq(ocat', 1, Len(ocat)) = ocat
              /\ IsWeightedMean(ocat'[Len(ocat')], InTolerance(Pending(md_gi)))
              /\ md_done' = md_done \cup Pending(md_gi)

HasNan(G) == \E i \in G : IsNan(CatCopy[i].amp)

\* C24 as stated: for every group with two or more not-yet-consumed members
\* the output receives one merged entry, the damp[0]^-2 weighted average of
\* exactly the members within the amplitude tolerance of the strongest, and
\* the other members are consumed so that they contribute to no entry.
C24_OneMergedEntryPerGroup == [][MergeStep => MergedOnce]_vars

\* C24 amended: the same for every such group none of whose amp[0] is NaN;
\* a group holding a NaN amp[0] is skipped, no entry is appended and none of
\* its members is consumed.
C24_MergedUnlessNan ==
    [][MergeStep => IF HasNan(Pending(md_gi))
                    THEN ocat' = ocat /\ md_done' = md_done
                    ELSE MergedOnce]_vars

\* C24 witness: the first group had three members, two of them within the
\* tolerance and one outside, and has been merged into one entry
C24_Witness ==
    /\ md_pc = "loop"
    /\ md_gi = 1
    /\ Cardinality(MergeGroups(0)) = 3
    /\ ~HasNan(MergeGroups(0))
    /\ Cardinality(InTolerance(MergeGroups(0))) = 2
    /\ Len(ocat) = 1
    /\ md_done = MergeGroups(0)

\* C25: the damp of every merged entry is the minimum of the damp of the
\* members that were averaged, and differs from their damp[0]^-2 weighted
\* combination whenever their damp values differ.
C25_DampIsMinimum ==
    [][(MergeStep /\ Len(ocat') > Len(ocat)) =>
          LET G == InTolerance(Pending(md_gi))
              o == ocat'[Len(ocat')]
              damps == {CatCopy[i].damp : i \in G}
          IN  /\ FracEq(o.damp, <<Min(damps), 1>>)
              /\ Cardinality(damps) > 1
                    => ~FracEq(o.damp, WMean(G, [i \in G |-> CatCopy[i].damp]))]_vars

\* C25 witness: two members with different damp have been merged
C25_Witness ==
    /\ md_pc = "loop"
    /\ md_gi = 1
    /\ Len(ocat) = 1
    /\ Cardinality(InTolerance(MergeGroups(0))) >= 2
    /\ ~HasNan(MergeGroups(0))
    /\ Cardinality({CatCopy[i].damp : i \in InTolerance(MergeGroups(0))}) = 2

(***************************************************************************)
(* Claims about the prior of fit_src_amps                                  *)
(***************************************************************************)
\* what the prior has added when it has been applied in a pass
PriorApplied ==
    \A k \in 1 .. Len(pf_inds) :
        /\ pf_rhs[k] = pf_rhs0[k] + pf_prior.ivar[pf_inds[k]] * pf_prior.amp[pf_inds[k]]
        /\ pf_icov[k][k] = pf_icov0[k][k] + pf_prior.ivar[pf_inds[k]]
        /\ \A l \in 1 .. Len(pf_inds) : l # k => pf_icov[k][l] = pf_icov0[k][l]

\* C26: in every pass, once the prior is applied, rhs[k] has grown by
\* prior_ivar[fit_inds[k]] * prior_amp[fit_inds[k]] and icov[k][k] by
\* prior_ivar[fit_inds[k]] for the k-th surviving source, the off-diagonal
\* entries of icov are as the projections left them (so the priors of the
\* rejected sources are not used), and the caller's prior arrays never change.
C26_PriorOnSurvivors ==
    /\ [](pf_pc = "sym" => PriorApplied)
    /\ [][pf_prior' = pf_prior]_vars

\* C26 witness: in the second pass the prior has been applied to a single
\* survivor that follows an edge-rejected source with a different prior
C26_Witness ==
    /\ pf_pc = "sym"
    /\ pf_ipass = 1
    /\ pf_inds = <<1>>
    /\ pf_prior.ivar[1] > 0
    /\ pf_prior.ivar[0] # pf_prior.ivar[1]
    /\ pf_prior.amp[0] # pf_prior.amp[1]
    /\ pf_rhs # pf_rhs0

(***************************************************************************)
(* Claims about the exchange of merge_maps_onto                            *)
(***************************************************************************)
\* every rank has returned
AllReturned == \A r \in DOMAIN mm_pc : mm_pc[r] = "done"

\* C27: for any number of ranks and of maps per rank the exchange runs to
\* completion: every rank returns, the root with the merged map and every
\* other rank with None, no sent message is left unreceived, and the root
\* goes through the ranks in increasing order.
C27_ExchangeCompletes ==
    /\ <>AllReturned
    /\ [](AllReturned => \A r \in DOMAIN mm_pc :
              /\ chan[r] = <<>>
              /\ mm_sent[r] = IF r = mm_root THEN 0 ELSE Len(maplist[r])
              /\ mm_out[r] = IF r = mm_root THEN "omap" ELSE "None")
    /\ [][mm_ri' >= mm_ri]_vars

(***************************************************************************)
(* Claims about the selection of a block of find_srcs                      *)
(***************************************************************************)
\* a block is about to run on a map in which something is detected
BlockDetects == /\ fs_pc = "block"
                /\ iblock < nblock
                /\ Components(fmap) # <<>>

\* the largest S/N of the components of map m
LargestSn(m) == SetMax({Abs(m[p]) \div FsNorm : p \in MatchesPos(m) \cup MatchesNeg(m)})

\* C28: in every block that detects something the new sn_lim is at least
\* snmin and at most the largest component S/N of the block, so the block
\* never stops on an empty selection and adds at least one source to fits.
C28_SelectionNeverEmpty ==
    /\ [](fs_stop # "nokeep")
    /\ [][BlockDetects =>
            /\ FracLeq(<<FsSnMin, 1>>, sn_lim')
            /\ FracLeq(sn_lim', <<LargestSn(fmap), 1>>)
            /\ Len(fits') > Len(fits)
            /\ \E k \in DOMAIN fits' : k > Len(fits) /\ fits'[k].block = iblock]_vars

\* C28 witness: the second block has selected the weaker of two components
\* with a cutoff strictly between snmin and the largest S/N left
C28_Witness ==
    /\ fs_pc = "block"
    /\ iblock = 2
    /\ Len(fits) = 2
    /\ fits[1].block = 0
    /\ fits[2].block = 1
    /\ ~FracLeq(fs_cuts[2], <<FsSnMin, 1>>)
    /\ ~FracLeq(<<Abs(fits[2].amp[1]), fits[2].amp[2]>>, fs_cuts[2])
====
